---- MODULE Spec2Model ----
(***************************************************************************)
(* A model of the Magic Unicorn TTS web interface                          *)
(* (src/web_interface_magic_unicorn.py, src/web_interface_enhanced.py) and *)
(* of the in-process MLIR-AIE NPU integration                              *)
(* (src/kokoro_mlir_integration.py).                                       *)
(*                                                                         *)
(* The web server handles /synthesize requests on request threads; every   *)
(* request with non-blank text writes a worker script, runs it in a        *)
(* subprocess, reads the worker's stdout and the audio artifact the worker *)
(* saved at the fixed path /tmp/synthesis_result.npy, writes a WAV file    *)
(* and appends a record to the performance_metrics deque.                  *)
(***************************************************************************)
EXTENDS Integers, Sequences, FiniteSets, TLC

(***************************************************************************)
(* Bounds of the model.                                                    *)
(***************************************************************************)
NumThreads == 2        \* request threads serving /synthesize concurrently
MaxRequests == 2       \* requests admitted in one behaviour of Spec
MaxInputRequests == 2  \* requests admitted in one behaviour of InputSpec
RingExtra == 2         \* requests admitted beyond the ring capacity in RingSpec
MaxCalls == 2          \* create_audio calls in one behaviour of CreateSpec
MetricsExtra == 2      \* requests admitted beyond the /metrics window in MetricsSpec
MaxMetricsCalls == 2   \* GET /metrics calls in one behaviour of MetricsSpec
MaxLogRequests == 1    \* requests admitted in one behaviour of LogSpec
MaxAudioCalls == 2     \* GET /audio calls in one behaviour of LogSpec
MaxSettingsCalls == 2  \* /settings calls in one behaviour of SettingsSpec
MaxBodyKeys == 2       \* keys in the body of one POST /settings
StyleTableLen == 3     \* rows of a voice's style table
NumClients == 2        \* socket clients
MaxStreamRecords == 2  \* records logged in a short run of StreamSpec
LogExtra == 2          \* records logged beyond the capacity of log_buffer
MaxSocketEvents == 2   \* connect, request_logs and disconnect events
MaxTakes == 2          \* entries log_streamer takes in a long run of StreamSpec
MaxMethodRequests == 1 \* requests admitted in one behaviour of MethodSpec
SampleSteps == 256     \* float samples are multiples of 1 / SampleSteps
MaxSampleSteps == 600  \* and at most MaxSampleSteps / SampleSteps in size

(***************************************************************************)
(* Program constants.                                                      *)
(***************************************************************************)
MetricsMaxLen == 100   \* performance_metrics = deque(maxlen=100)
KokoroSampleRate == 24000
RecentLen == 20        \* list(performance_metrics)[-20:]

Threads == 1..NumThreads
Clients == 1..NumClients

VARIABLES
    SYSTEM_STATUS,        \* result of detect_system_status() at import
    threads,              \* the request threads of this run
    budget,               \* requests that may still be admitted
    dom,                  \* the request inputs and timings this run draws from
    pc,                   \* pc[r]: where thread r is in synthesize()
    req,                  \* req[r]: the request thread r is serving
    proc,                 \* proc[r]: the worker process of thread r
    local,                \* local[r]: locals of run_synthesis_subprocess/synthesize
    resp,                 \* resp[r]: the HTTP response of thread r's request
    tmp_scripts,          \* worker scripts on disk (by the request's name)
    artifact,             \* content of /tmp/synthesis_result.npy, or NoFile
    wav_files,            \* names of the real_speech_<hex>.wav files on disk
    clock,                \* the wall clock read by datetime.now()
    performance_metrics,  \* the deque(maxlen=100) of metric records
    completed,            \* history: every record ever appended, in order
    logged,               \* logged[r]: the log records WebLogHandler has
                          \* handled for the request of thread r, in order
    emitted               \* emitted[r]: the messages thread r has emitted
                          \* through socketio for its request, in order

webVars == <<SYSTEM_STATUS, threads, budget, dom, pc, req, proc, local,
             resp, tmp_scripts, artifact, wav_files, clock,
             performance_metrics, completed, logged, emitted>>

VARIABLES
    acceleration_enabled, \* KokoroMLIRNPUIntegration.acceleration_enabled
    ca_calls,             \* create_audio calls that may still be made
    ca_pc,                \* where the create_audio call is
    ca_in,                \* its arguments
    ca_attempts,          \* the synthesis attempts it has made, in order
    ca_loc,               \* locals of _create_audio_npu_accelerated
    ca_runs,              \* the executions of a model it has caused, in order
    ca_out                \* what it returned or raised

caVars == <<acceleration_enabled, ca_calls, ca_pc, ca_in, ca_attempts, ca_loc,
            ca_runs, ca_out>>

VARIABLES
    m_calls,              \* GET /metrics calls that may still be made
    m_when,               \* ring lengths at which a client calls GET /metrics
    m_pc,                 \* where the get_metrics call is
    m_f,                  \* the record field its current expression reads
    m_loc,                \* the values it has computed so far
    m_ver                 \* history: the ring's mutation count at the first
                          \* and at the latest read of the call

metVars == <<m_calls, m_when, m_pc, m_f, m_loc, m_ver>>

VARIABLES
    APP_SETTINGS,         \* the configuration map
    root_level,           \* the level of the root logger
    s_calls,              \* /settings calls that may still be made
    s_last                \* the latest /settings call: what was sent, the map
                          \* before it, the status and the records logged

setVars == <<APP_SETTINGS, root_level, s_calls, s_last>>

VARIABLES
    a_calls,              \* GET /audio/<filename> calls that may still be made
    a_last                \* the latest of them: file name, status, records logged

audVars == <<a_calls, a_last>>

apiVars == <<metVars, setVars, audVars>>

VARIABLES
    log_buffer,           \* deque(maxlen=1000): the log history
    log_queue,            \* queue.Queue(): entries waiting for log_streamer
    h_lock,               \* the entry of the WebLogHandler.emit call that
                          \* holds the handler's lock, with the caller
    l_budget,             \* records the threads of the run may still log
    l_sc,                 \* the scenario of the run: who logs what, and when
                          \* the streamer and the clients are first scheduled
    captured,             \* history: every entry WebLogHandler has built, in
                          \* the order of log_buffer.append
    st_entry,             \* log_streamer: the entry taken from the queue
    st_budget,            \* entries log_streamer may still take in this run
    streamed,             \* history: the entries emitted as new_log, in order
    c_budget,             \* socket events clients may still cause
    c_pc,                 \* c_pc[c]: where the socket handler of client c is
    inbox                 \* inbox[c]: the log_buffer messages emitted to
                          \* client c since it connected, in order

logVars == <<log_buffer, log_queue, h_lock, l_budget, l_sc, captured,
             st_entry, st_budget, streamed, c_budget, c_pc, inbox>>

VARIABLES
    pcm_audio,            \* the float samples synthesize writes as WAV, each
                          \* a multiple of 1 / SampleSteps
    audio_int16           \* the 16-bit samples written, or <<>>

pcmVars == <<pcm_audio, audio_int16>>

vars == <<webVars, caVars, apiVars, logVars, pcmVars>>

(***************************************************************************)
(* Text: a sequence of characters.  str.strip() removes leading and        *)
(* trailing whitespace.                                                    *)
(***************************************************************************)
Whitespace == {" ", "\t", "\n"}

RECURSIVE LStrip(_)
LStrip(s) == IF s # <<>> /\ Head(s) \in Whitespace THEN LStrip(Tail(s)) ELSE s

RECURSIVE RStrip(_)
RStrip(s) ==
    IF s # <<>> /\ s[Len(s)] \in Whitespace
    THEN RStrip(SubSeq(s, 1, Len(s) - 1))
    ELSE s

\* "if not text:", the check without strip()
NoStrip(s) == s

Strip(s) == RStrip(LStrip(s))

Texts == {<<>>, <<" ">>, <<"\t", "\n">>, <<"h", "i">>, <<" ", "o", "k", " ">>,
          <<"l", "o", "n", "g">>}

\* The voice of a request is whatever string the client sends; the voices
\* file knows some of them.
Voices == {"af_heart", "no_such_voice"}
KnownVoices == {"af_heart"}
Methods == {"auto", "mlir_npu", "npu_basic", "cpu"}

(***************************************************************************)
(* Worker output.  A line of stdout is one of:                             *)
(*   "diag"        incidental text, e.g. a library warning                 *)
(*   "blank"       a line of whitespace                                    *)
(*   "brace"       text that begins with { and ends with } but is no JSON  *)
(*   "json_other"  a JSON object that is not the worker's result           *)
(*   "ok"          the worker's result line, success true                  *)
(*   "fail"        the worker's result line, success false                 *)
(***************************************************************************)
Lines == {"diag", "blank", "brace", "json_other", "ok", "fail"}

\* line.startswith('{') and line.endswith('}') after line.strip()
Braced(l) == l \in {"brace", "json_other", "ok", "fail"}

\* json.loads(line) succeeds
ValidJson(l) == l \in {"json_other", "ok", "fail"}

\* the keys of the dict json.loads(line) returns
JsonKeys(l) ==
    CASE l = "ok"   -> {"success", "sample_rate", "audio_samples", "audio_file",
                        "method_used", "voice"}
      [] l = "fail" -> {"success", "error", "traceback"}
      [] OTHER      -> {"level"}

\* data['success']
JsonSuccess(l) == l = "ok"

\* result.stdout.strip() is empty
StdoutEmpty(out) == \A i \in 1..Len(out) : out[i] = "blank"

\* the first line that begins with { and ends with }; 0 when there is none
RECURSIVE FirstBraced(_, _)
FirstBraced(out, i) ==
    IF i > Len(out) THEN 0
    ELSE IF Braced(out[i]) THEN i
    ELSE FirstBraced(out, i + 1)

(***************************************************************************)
(* Logging.  logger = logging.getLogger(__name__) has no level of its own, *)
(* so a record is handled (by WebLogHandler among others) when its level   *)
(* is at least the level of the root logger: INFO after basicConfig (line  *)
(* 24), or what POST /settings has set since (line 1566).                  *)
(***************************************************************************)
LevelNames == {"DEBUG", "INFO", "WARNING", "ERROR", "CRITICAL"}

\* logging.DEBUG .. logging.CRITICAL
LevelNo(name) ==
    CASE name = "DEBUG"    -> 10
      [] name = "INFO"     -> 20
      [] name = "WARNING"  -> 30
      [] name = "ERROR"    -> 40
      [] name = "CRITICAL" -> 50

\* logger.info / logger.error: lg with the record, when the level lets it by
LogTo(lg, level, msg) ==
    IF LevelNo(level) >= LevelNo(root_level)
    THEN Append(lg, [level |-> level, msg |-> msg])
    ELSE lg

NoFile == [by |-> 0, len |-> 0]
NoReq == [id |-> 0, text |-> <<>>, voice |-> "", method |-> ""]
NoScript == [text |-> <<>>, voice |-> "", speed |-> ""]
NoProc == [st |-> "none", script |-> NoScript, backend |-> "", rc |-> 0,
           out |-> <<>>, err |-> ""]
NoLocal == [result |-> "none", kind |-> "", fields |-> {}, audio |-> NoFile,
            sample_rate |-> 0]
NoResp == [status |-> 0, success |-> FALSE, kind |-> "", fields |-> {},
           audio |-> NoFile, filename |-> 0]

(***************************************************************************)
(* The inputs a run draws from.  Times are in milliseconds, the real-time  *)
(* factor in thousandths.                                                  *)
(***************************************************************************)
PreOutputs == {<<>>, <<"diag">>, <<"blank">>, <<"brace">>, <<"json_other">>}

WorkerOutcomes == {"save", "raise", "crash", "exit0"}
WorkerEndings == {"print_exit", "crash_before_print", "crash_after_print"}

FullDom == [texts |-> Texts, voices |-> Voices, methods |-> Methods,
            pres |-> PreOutputs,
            outcomes |-> WorkerOutcomes, endings |-> WorkerEndings,
            gen_times |-> {500, 2000}, audio_lens |-> {0, KokoroSampleRate}]

NarrowDom == [texts |-> {<<" ">>, <<"h", "i">>}, voices |-> KnownVoices,
              methods |-> {"auto"},
              pres |-> {<<>>, <<"diag">>},
              outcomes |-> WorkerOutcomes, endings |-> WorkerEndings,
              gen_times |-> {500}, audio_lens |-> {0, KokoroSampleRate}]

\* Workers that produce audio (or are killed by the timeout).
RingDom == [texts |-> {<<"h", "i">>}, voices |-> KnownVoices,
            methods |-> {"auto"}, pres |-> {<<>>},
            outcomes |-> {"save"}, endings |-> {"print_exit"},
            gen_times |-> {500}, audio_lens |-> {KokoroSampleRate}]

StatusValues == [npu_available : BOOLEAN, mlir_aie_ready : BOOLEAN]

NoCall == [text |-> <<>>, voice |-> ""]

NoStyle == [st |-> "none", voice |-> "", row |-> 0]
NoFeed == [tokens |-> <<>>, style |-> NoStyle, speed |-> 0]
NoCaLoc == [voice_style |-> "", tokens |-> <<>>, style |-> NoStyle,
            reads |-> {}, padded |-> <<>>, feed |-> NoFeed,
            accel |-> "none", default |-> "none", err |-> ""]
NoAudio == [kind |-> "none", ndim |-> 0, data |-> <<>>]

CaIdle ==
    /\ ca_pc = "idle"
    /\ ca_in = NoCall
    /\ ca_attempts = <<>>
    /\ ca_loc = NoCaLoc
    /\ ca_runs = <<>>
    /\ ca_out = NoAudio

NoMetrics == [status |-> 0, recent |-> <<>>, total |-> 0,
              rtf |-> [sum |-> 0, n |-> 1],
              generation_time |-> [sum |-> 0, n |-> 1],
              methods |-> {}, it |-> 0]

MetricsIdle ==
    /\ m_pc = "idle"
    /\ m_f = ""
    /\ m_loc = NoMetrics
    /\ m_ver = [lo |-> 0, hi |-> 0]

\* No client of the other endpoints.
\* APP_SETTINGS of web_interface_magic_unicorn.py (lines 150-160); every
\* value is written as JSON text
MagicSettings ==
    [preferred_method |-> "mlir_npu", audio_quality |-> "high",
     sample_rate |-> "24000", speed |-> "1.0", pitch |-> "1.0",
     auto_play |-> "true", log_level |-> "INFO",
     max_text_length |-> "1000", show_advanced |-> "false"]

NoSettingsCall == [method |-> "", body |-> [kind |-> "none", items |-> <<>>],
                   before |-> MagicSettings,
                   status |-> 0, logs |-> <<>>]
NoServe == [filename |-> 0, status |-> 0, logs |-> <<>>]

SettingsAtImport ==
    /\ APP_SETTINGS = MagicSettings
    /\ root_level = "INFO"
    /\ s_last = NoSettingsCall

\* No entry; the lock of WebLogHandler is free.
NoEntry == [n |-> 0, level |-> "", message |-> ""]
NoLock == [entry |-> NoEntry, by |-> 0]

\* No thread logs, no client connects.
QuietScenario == [records |-> 0, levels |-> {}, hold |-> 0, events |-> 0,
                  clients |-> {}, takes |-> 0]

ChannelQuiet ==
    /\ log_buffer = <<>>
    /\ log_queue = <<>>
    /\ h_lock = NoLock
    /\ l_budget = 0
    /\ l_sc = QuietScenario
    /\ captured = <<>>
    /\ st_entry = NoEntry
    /\ st_budget = 0
    /\ streamed = <<>>
    /\ c_budget = 0
    /\ c_pc = [c \in Clients |-> "off"]
    /\ inbox = [c \in Clients |-> <<>>]

\* No WAV file is being written.
PcmQuiet ==
    /\ pcm_audio = <<>>
    /\ audio_int16 = <<>>

ApiQuiet ==
    /\ m_calls = 0
    /\ m_when = {}
    /\ MetricsIdle
    /\ ChannelQuiet
    /\ PcmQuiet
    /\ SettingsAtImport
    /\ s_calls = 0
    /\ a_calls = 0
    /\ a_last = NoServe

InitCommon ==
    /\ acceleration_enabled = FALSE
    /\ ca_calls = 0
    /\ CaIdle
    /\ pc = [r \in Threads |-> "idle"]
    /\ req = [r \in Threads |-> NoReq]
    /\ proc = [r \in Threads |-> NoProc]
    /\ local = [r \in Threads |-> NoLocal]
    /\ resp = [r \in Threads |-> NoResp]
    /\ tmp_scripts = {}
    /\ artifact = NoFile
    /\ wav_files = {}
    /\ clock = 0
    /\ performance_metrics = <<>>
    /\ completed = <<>>
    /\ logged = [r \in Threads |-> <<>>]
    /\ emitted = [r \in Threads |-> <<>>]

\* Concurrent requests: every thread serves, inputs from NarrowDom.
Init ==
    /\ SYSTEM_STATUS = [npu_available |-> TRUE, mlir_aie_ready |-> TRUE]
    /\ threads = Threads
    /\ budget = MaxRequests
    /\ dom = NarrowDom
    /\ InitCommon
    /\ ApiQuiet

\* Two threads serve; the fairness of FairSpec is stated for these.
FairInit ==
    /\ SYSTEM_STATUS = [npu_available |-> TRUE, mlir_aie_ready |-> TRUE]
    /\ threads = {r \in Threads : r <= 2}
    /\ budget = MaxRequests
    /\ dom = NarrowDom
    /\ InitCommon
    /\ ApiQuiet

\* One request at a time, every input and every capability state.
InputInit ==
    /\ SYSTEM_STATUS \in StatusValues
    /\ threads = {1}
    /\ budget = MaxInputRequests
    /\ dom = FullDom
    /\ InitCommon
    /\ ApiQuiet

\* One request at a time, enough of them to overflow the metrics deque.
RingInit ==
    /\ SYSTEM_STATUS = [npu_available |-> FALSE, mlir_aie_ready |-> FALSE]
    /\ threads = {1}
    /\ budget = MetricsMaxLen + RingExtra
    /\ dom = RingDom
    /\ InitCommon
    /\ ApiQuiet

(***************************************************************************)
(* deque(maxlen=n).append(x): a full deque drops its leftmost element.     *)
(***************************************************************************)
\* a plain list: nothing is dropped
ListAppend(d, x, maxlen) == Append(d, x)

DequeAppend(d, x, maxlen) ==
    IF Len(d) = maxlen THEN Append(Tail(d), x) ELSE Append(d, x)

(***************************************************************************)
(* synthesize(), lines 1416-1433, and run_synthesis_subprocess() up to the *)
(* start of the worker (lines 218-287).  Blank text is answered with 400;  *)
(* otherwise the worker script is written and the worker is started.  The  *)
(* method is passed on but the script does not depend on it.               *)
(***************************************************************************)
\* The script runs Kokoro(model_path, voices_path).create(text, voice,
\* speed=1.0): the plain ONNX model on the CPU, whatever the method.
WorkerBackend == "cpu"

\* the speed of the script is the speed of the configuration map
ScriptWithSettingsSpeed(text, voice, method) ==
    [text |-> text, voice |-> voice, speed |-> APP_SETTINGS.speed]

\* synthesis_script, lines 218-272: the text and the voice are written into
\* the script as string literals (json.dumps), the speed is the literal 1.0
WorkerScript(text, voice, method) ==
    [text |-> text, voice |-> voice, speed |-> "1.0"]

\* tempfile.NamedTemporaryFile: a name no live request or file goes by
FreshName ==
    CHOOSE i \in 1..(NumThreads + 1) :
        i \notin {req[t].id : t \in Threads} \cup {artifact.by}

Receive(r) ==
    /\ r \in threads
    /\ pc[r] = "idle"
    /\ budget > 0
    /\ \E text \in dom.texts, voice \in dom.voices, method \in dom.methods :
        LET id == FreshName IN
        /\ budget' = budget - 1
        /\ req' = [req EXCEPT ![r] = [id |-> id, text |-> text,
                                      voice |-> voice, method |-> method]]
        /\ IF Strip(text) = <<>>
           THEN /\ resp' = [resp EXCEPT ![r] =
                        [status |-> 400, success |-> FALSE,
                         kind |-> "No text provided for synthesis",
                         fields |-> {}, audio |-> NoFile,
                         filename |-> 0]]
                /\ pc' = [pc EXCEPT ![r] = "done"]
                /\ logged' = [logged EXCEPT ![r] =
                       LogTo(<<>>, "INFO", "Real TTS request")]
                /\ UNCHANGED <<proc, tmp_scripts>>
           ELSE /\ tmp_scripts' = tmp_scripts \cup {id}
                /\ logged' = [logged EXCEPT ![r] =
                       LogTo(LogTo(<<>>, "INFO", "Real TTS request"),
                             "INFO", "Running real TTS synthesis")]
                /\ proc' = [proc EXCEPT ![r] =
                       [NoProc EXCEPT !.st = "started",
                                      !.script =
                                          WorkerScript(text, voice, method),
                                      !.backend = WorkerBackend]]
                /\ pc' = [pc EXCEPT ![r] = "wait"]
                /\ UNCHANGED resp
    /\ UNCHANGED <<caVars, apiVars, logVars, pcmVars, emitted, SYSTEM_STATUS, threads, dom, local, artifact, wav_files,
                   clock, performance_metrics, completed>>

(***************************************************************************)
(* The worker script (lines 222-272): Kokoro(...).create(...) on the CPU   *)
(* model, then np.save to the fixed path, then the result line.  An        *)
(* exception is caught and reported as a failure line; the process can     *)
(* also die (native crash) or leave through sys.exit in a library.  For a  *)
(* voice the voices file does not know, create raises.                     *)
(***************************************************************************)
WorkerOutcomesFor(voice) ==
    IF voice \in KnownVoices THEN dom.outcomes ELSE dom.outcomes \cap {"raise"}

WorkerRun(r) ==
    /\ r \in threads
    /\ proc[r].st = "started"
    /\ \E pre \in dom.pres, what \in WorkerOutcomesFor(req[r].voice),
          n \in dom.audio_lens :
        CASE what = "save" ->
               /\ artifact' = [by |-> req[r].id, len |-> n]
               /\ proc' = [proc EXCEPT ![r] =
                      [proc[r] EXCEPT !.st = "saved", !.out = pre]]
          [] what = "raise" ->
               /\ proc' = [proc EXCEPT ![r] =
                      [proc[r] EXCEPT !.st = "exited",
                                      !.out = pre \o <<"fail">>]]
               /\ UNCHANGED artifact
          [] what = "crash" ->
               /\ proc' = [proc EXCEPT ![r] =
                      [proc[r] EXCEPT !.st = "exited", !.rc = 1,
                                      !.out = pre, !.err = "fault"]]
               /\ UNCHANGED artifact
          [] what = "exit0" ->
               /\ proc' = [proc EXCEPT ![r] =
                      [proc[r] EXCEPT !.st = "exited", !.out = pre]]
               /\ UNCHANGED artifact
    /\ UNCHANGED <<caVars, apiVars, logVars, pcmVars, emitted, SYSTEM_STATUS, threads, budget, dom, pc, req, local,
                   resp, tmp_scripts, wav_files, clock, performance_metrics,
                   completed, logged>>

WorkerFinish(r) ==
    /\ r \in threads
    /\ proc[r].st = "saved"
    /\ \E how \in dom.endings :
        proc' = [proc EXCEPT ![r] =
            [proc[r] EXCEPT
                !.st = "exited",
                !.rc = IF how = "print_exit" THEN 0 ELSE 1,
                !.out = IF how = "crash_before_print" THEN proc[r].out
                        ELSE proc[r].out \o <<"ok">>,
                !.err = IF how = "print_exit" THEN "" ELSE "fault"]]
    /\ UNCHANGED <<caVars, apiVars, logVars, pcmVars, emitted, SYSTEM_STATUS, threads, budget, dom, pc, req, local,
                   resp, tmp_scripts, artifact, wav_files, clock,
                   performance_metrics, completed, logged>>

(***************************************************************************)
(* The way out of synthesize() through its except branch (lines            *)
(* 1497-1505), after the finally of run_synthesis_subprocess (lines        *)
(* 345-346) has removed the worker script.  how is "returned_failure" when *)
(* run_synthesis_subprocess returned a failure dict (raised again by line  *)
(* 1436) and "raised" when an exception left it.                           *)
(***************************************************************************)
\* the worker script is removed on the success return only
Fail500KeepScript(r, how, kind, fields) ==
    /\ local' = [local EXCEPT ![r].result = how, ![r].kind = kind,
                              ![r].fields = fields]
    /\ UNCHANGED tmp_scripts
    /\ logged' = [logged EXCEPT ![r] =
            LogTo(LogTo(logged[r], "ERROR", "Real TTS failed"),
                  "ERROR", "Full error")]
    /\ resp' = [resp EXCEPT ![r] =
            [status |-> 500, success |-> FALSE, kind |-> kind,
             fields |-> fields, audio |-> NoFile, filename |-> 0]]
    /\ pc' = [pc EXCEPT ![r] = "done"]

Fail500(r, how, kind, fields) ==
    /\ local' = [local EXCEPT ![r].result = how, ![r].kind = kind,
                              ![r].fields = fields]
    /\ tmp_scripts' = tmp_scripts \ {req[r].id}
    /\ logged' = [logged EXCEPT ![r] =
            LogTo(LogTo(logged[r], "ERROR", "Real TTS failed"),
                  "ERROR", "Full error")]
    /\ resp' = [resp EXCEPT ![r] =
            [status |-> 500, success |-> FALSE, kind |-> kind,
             fields |-> fields, audio |-> NoFile, filename |-> 0]]
    /\ pc' = [pc EXCEPT ![r] = "done"]

(***************************************************************************)
(* subprocess.run(..., timeout=30), lines 284-287: the worker that has not *)
(* exited when the timeout expires is killed and TimeoutExpired is raised. *)
(***************************************************************************)
\* subprocess.run without timeout=: the call waits for the worker
NoTimeout(r) == FALSE /\ UNCHANGED vars

\* the timeout is raised and the worker is left running
TimeoutWithoutKill(r) ==
    /\ r \in threads
    /\ pc[r] = "wait"
    /\ proc[r].st \in {"started", "saved"}
    /\ Fail500(r, "raised", "TimeoutExpired", {})
    /\ UNCHANGED <<caVars, apiVars, logVars, pcmVars, emitted, SYSTEM_STATUS,
                   threads, budget, dom, req, proc, artifact, wav_files, clock,
                   performance_metrics, completed>>

Timeout(r) ==
    /\ r \in threads
    /\ pc[r] = "wait"
    /\ proc[r].st \in {"started", "saved"}
    /\ proc' = [proc EXCEPT ![r].st = "killed"]
    /\ Fail500(r, "raised", "TimeoutExpired", {})
    /\ UNCHANGED <<caVars, apiVars, logVars, pcmVars, emitted, SYSTEM_STATUS, threads, budget, dom, req, artifact,
                   wav_files, clock, performance_metrics, completed>>

(***************************************************************************)
(* run_synthesis_subprocess(), lines 289-314 and 329-343: what the parent  *)
(* makes of the exit code and the captured output.                         *)
(***************************************************************************)
ParseResult(p) ==
    IF p.rc # 0
    THEN [how |-> "returned_failure", kind |-> "Subprocess failed with code",
          fields |-> {"returncode", "stdout", "stderr"}]
    ELSE IF StdoutEmpty(p.out)
    THEN [how |-> "returned_failure",
          kind |-> "Subprocess returned empty output", fields |-> {"stderr"}]
    ELSE LET i == FirstBraced(p.out, 1) IN
         IF i = 0
         THEN [how |-> "returned_failure", kind |-> "No JSON found in output",
               fields |-> {"stdout", "stderr"}]
         ELSE IF ~ValidJson(p.out[i])
         THEN [how |-> "returned_failure", kind |-> "JSON parse error",
               fields |-> {"stdout", "stderr"}]
         ELSE IF "success" \notin JsonKeys(p.out[i])
         THEN [how |-> "raised", kind |-> "KeyError", fields |-> {"key"}]
         ELSE IF JsonSuccess(p.out[i])
         THEN [how |-> "load", kind |-> "", fields |-> {}]
         ELSE [how |-> "returned_failure", kind |-> "worker error",
               fields |-> {"error"}]

ParentParse(r) ==
    /\ r \in threads
    /\ pc[r] = "wait"
    /\ proc[r].st = "exited"
    /\ LET res == ParseResult(proc[r]) IN
       IF res.how = "load"
       THEN /\ pc' = [pc EXCEPT ![r] = "load"]
            /\ UNCHANGED <<local, resp, tmp_scripts, logged>>
       ELSE Fail500(r, res.how, res.kind, res.fields)
    /\ UNCHANGED <<caVars, apiVars, logVars, pcmVars, emitted, SYSTEM_STATUS, threads, budget, dom, req, proc,
                   artifact, wav_files, clock, performance_metrics, completed>>

(***************************************************************************)
(* Line 319, np.load(data['audio_file']): FileNotFoundError when the file  *)
(* is not there; no except clause of run_synthesis_subprocess catches it.  *)
(***************************************************************************)
ParentLoad(r) ==
    /\ r \in threads
    /\ pc[r] = "load"
    /\ IF artifact = NoFile
       THEN Fail500(r, "raised", "FileNotFoundError", {"audio_file"})
       ELSE /\ local' = [local EXCEPT ![r].audio = artifact]
            /\ pc' = [pc EXCEPT ![r] = "unlink"]
            /\ UNCHANGED <<resp, tmp_scripts, logged>>
    /\ UNCHANGED <<caVars, apiVars, logVars, pcmVars, emitted, SYSTEM_STATUS, threads, budget, dom, req, proc,
                   artifact, wav_files, clock, performance_metrics, completed>>

(***************************************************************************)
(* Line 320, os.unlink(data['audio_file']), then the return of lines       *)
(* 322-328 through the finally of lines 345-346.                           *)
(***************************************************************************)
ParentUnlink(r) ==
    /\ r \in threads
    /\ pc[r] = "unlink"
    /\ IF artifact = NoFile
       THEN /\ Fail500(r, "raised", "FileNotFoundError", {"audio_file"})
            /\ UNCHANGED artifact
       ELSE /\ artifact' = NoFile
            /\ local' = [local EXCEPT ![r].result = "returned_success",
                                      ![r].sample_rate = KokoroSampleRate]
            /\ tmp_scripts' = tmp_scripts \ {req[r].id}
            /\ pc' = [pc EXCEPT ![r] = "assemble"]
            /\ UNCHANGED <<resp, logged>>
    /\ UNCHANGED <<caVars, apiVars, logVars, pcmVars, emitted, SYSTEM_STATUS, threads, budget, dom, req, proc,
                   wav_files, clock, performance_metrics, completed>>

(***************************************************************************)
(* synthesize(), lines 1438-1495: the WAV file is written, then the        *)
(* metrics are computed, appended and emitted.  generation_time /          *)
(* audio_duration is a float division: ZeroDivisionError when the audio    *)
(* has no samples, caught by the except branch of lines 1497-1505.         *)
(***************************************************************************)
AudioDuration(len, sample_rate) == (len * 1000) \div sample_rate

Rtf(generation_time, audio_duration) ==
    (generation_time * 1000) \div audio_duration

MetricEntry(r, generation_time, audio_duration) ==
    [timestamp |-> clock + 1,
     method |-> req[r].method,
     voice |-> req[r].voice,
     text_length |-> Len(req[r].text),
     generation_time |-> generation_time,
     audio_duration |-> audio_duration,
     rtf |-> Rtf(generation_time, audio_duration),
     sample_rate |-> local[r].sample_rate]

\* no message is sent
NoEmit(out, event, data) == out

\* socketio.emit(event, data), line 1481: one message to the clients
SocketEmit(out, event, data) == Append(out, [event |-> event, data |-> data])

\* uuid.uuid4().hex[:8]: a file name not used before
NewWavName == Cardinality(wav_files) + 1

Assemble(r) ==
    /\ r \in threads
    /\ pc[r] = "assemble"
    /\ wav_files' = wav_files \cup {NewWavName}
    /\ \E generation_time \in dom.gen_times :
        LET audio_duration ==
                AudioDuration(local[r].audio.len, local[r].sample_rate)
        IN  IF audio_duration = 0
            THEN /\ resp' = [resp EXCEPT ![r] =
                         [status |-> 500, success |-> FALSE,
                          kind |-> "ZeroDivisionError", fields |-> {},
                          audio |-> NoFile, filename |-> 0]]
                 /\ logged' = [logged EXCEPT ![r] =
                        LogTo(LogTo(logged[r], "ERROR", "Real TTS failed"),
                              "ERROR", "Full error")]
                 /\ UNCHANGED <<clock, performance_metrics, completed,
                                emitted>>
            ELSE LET entry == MetricEntry(r, generation_time, audio_duration)
                 IN  /\ clock' = clock + 1
                     /\ performance_metrics' =
                            DequeAppend(performance_metrics, entry,
                                        MetricsMaxLen)
                     /\ completed' = Append(completed, entry)
                     /\ emitted' = [emitted EXCEPT ![r] =
                            SocketEmit(emitted[r], "performance_update",
                                       entry)]
                     /\ logged' = [logged EXCEPT ![r] =
                            LogTo(LogTo(logged[r], "INFO",
                                        "REAL SPEECH generated"),
                                  "INFO", "Real speech file")]
                     /\ resp' = [resp EXCEPT ![r] =
                            [status |-> 200, success |-> TRUE,
                             kind |-> "Real Kokoro TTS", fields |-> {},
                             audio |-> local[r].audio,
                             filename |-> NewWavName]]
    /\ pc' = [pc EXCEPT ![r] = "done"]
    /\ UNCHANGED <<caVars, apiVars, logVars, pcmVars, SYSTEM_STATUS, threads, budget, dom, req, proc,
                   local, tmp_scripts, artifact>>

(***************************************************************************)
(* The response has been sent; the thread is free for the next request.    *)
(***************************************************************************)
Recycle(r) ==
    /\ r \in threads
    /\ pc[r] = "done"
    /\ pc' = [pc EXCEPT ![r] = "idle"]
    /\ req' = [req EXCEPT ![r] = NoReq]
    /\ proc' = [proc EXCEPT ![r] = NoProc]
    /\ local' = [local EXCEPT ![r] = NoLocal]
    /\ resp' = [resp EXCEPT ![r] = NoResp]
    /\ logged' = [logged EXCEPT ![r] = <<>>]
    /\ emitted' = [emitted EXCEPT ![r] = <<>>]
    /\ UNCHANGED <<caVars, apiVars, logVars, pcmVars, SYSTEM_STATUS, threads, budget, dom, tmp_scripts,
                   artifact, wav_files, clock, performance_metrics, completed>>

Next ==
    \E r \in Threads :
        \/ Receive(r)
        \/ WorkerRun(r)
        \/ WorkerFinish(r)
        \/ Timeout(r)
        \/ ParentParse(r)
        \/ ParentLoad(r)
        \/ ParentUnlink(r)
        \/ Assemble(r)
        \/ Recycle(r)

Spec == Init /\ [][Next]_vars

InputSpec == InputInit /\ [][Next]_vars

(***************************************************************************)
(* Fairness: a request thread that can take its next step takes it, and    *)
(* the timeout of subprocess.run expires when the worker has not exited.   *)
(* Nothing makes a worker progress, and nothing makes a client send a      *)
(* request or a thread pick up the next one.                               *)
(***************************************************************************)
Fairness ==
    \A r \in Threads :
        /\ WF_vars(Timeout(r))
        /\ WF_vars(ParentParse(r))
        /\ WF_vars(ParentLoad(r))
        /\ WF_vars(ParentUnlink(r))
        /\ WF_vars(Assemble(r))

FairSpec == FairInit /\ [][Next]_vars /\ Fairness

RingSpec == RingInit /\ [][Next]_vars

(***************************************************************************)
(* KokoroMLIRNPUIntegration.create_audio (src/kokoro_mlir_integration.py). *)
(* kokoro_standard (the kokoro_onnx library) and the accelerator are       *)
(* outside the repository: a call into them returns or raises.             *)
(***************************************************************************)
CaTexts == {<<>>, <<" ">>, <<"o", " ">>, <<"h", "i">>, <<"l", "o", "g">>,
            <<"l", "o", "n", "g">>}
CaVoices == {"af_heart", "no_such_voice"}

\* tokenizer.tokenize(tokenizer.phonemize(text, lang)): one token for each
\* character that is not whitespace
TokenCount(text) == Cardinality({i \in 1..Len(text) : text[i] \notin Whitespace})

\* The vocabulary: the token id of a phoneme is its place in it (never 0).
Vocab == <<"h", "i", "l", "o", "n", "g", "k">>
TokenIdOf(c) == CHOOSE k \in 1..Len(Vocab) : Vocab[k] = c

RECURSIVE Tokenize(_)
Tokenize(text) ==
    IF text = <<>> THEN <<>>
    ELSE IF Head(text) \in Whitespace THEN Tokenize(Tail(text))
    ELSE <<TokenIdOf(Head(text))>> \o Tokenize(Tail(text))

\* get_voice_style(voice): the style table of a voice, one row for each
\* token length it supports
StyleTable(voice) ==
    [i \in 0..(StyleTableLen - 1) |-> [st |-> "ok", voice |-> voice, row |-> i]]

\* the index into the style table is the length of the padded sequence
PaddedStyleIndex(tokens) == Len(tokens) + 2

\* line 160: the index into the style table, len(tokens)
StyleIndex(tokens) == Len(tokens)

\* voice_style[i] on a numpy array: the row, or IndexError
StyleAt(table, i) ==
    IF i \in DOMAIN table THEN table[i]
    ELSE [st |-> "IndexError", voice |-> "", row |-> 0]

\* one boundary token only, in front
PadFront(tokens) == <<0>> \o tokens

\* line 161: [[0, *tokens, 0]]
Pad(tokens) == <<0>> \o tokens \o <<0>>

\* What an execution of the model gives: a 1-D array, a 0-d array, a Python
\* scalar, or an exception.
ResultKinds == {"array", "scalar", "pyscalar", "raise"}
ResultAudio(kind) ==
    CASE kind = "array"  -> [kind |-> "ndarray", ndim |-> 1, data |-> <<7, 8>>]
      [] kind = "scalar" -> [kind |-> "ndarray", ndim |-> 0, data |-> <<7>>]
      [] OTHER           -> [kind |-> "float", ndim |-> 0, data |-> <<7>>]

\* the result is handed on as it is
AsIs(audio) == audio

\* lines 180-185: np.array(audio) for what is no array, then a scalar
\* becomes a 1-D array of one element
EnsureArray(audio) ==
    LET a == IF audio.kind # "ndarray" THEN [audio EXCEPT !.kind = "ndarray"]
             ELSE audio
    IN  IF a.ndim = 0 THEN [a EXCEPT !.ndim = 1] ELSE a

\* KokoroNPUAcceleratorMLIR.accelerated_inference(default_fn, input_feed):
\* the accelerated execution; when that raises, the default execution, and
\* its result.  default_feed is what default_fn runs on.
AcceleratedInference(accel_result, default_result, default_feed, input_feed) ==
    IF accel_result # "raise"
    THEN [runs |-> <<[where |-> "accelerator", feed |-> input_feed]>>,
          result |-> accel_result]
    ELSE [runs |-> <<[where |-> "accelerator", feed |-> input_feed],
                     [where |-> "default", feed |-> default_feed]>>,
          result |-> default_result]

\* the default execution is given the feed without its tokens
RunWithoutTokens(accel_result, default_result, input_feed) ==
    AcceleratedInference(accel_result, default_result,
                         [input_feed EXCEPT !.tokens = <<>>], input_feed)

\* lines 75-80, mlir_npu_accelerated_run: the default execution is
\* lambda: original_run(output_names, input_feed, run_options)
MlirNpuAcceleratedRun(accel_result, default_result, input_feed) ==
    AcceleratedInference(accel_result, default_result, input_feed, input_feed)

\* kokoro_standard.create(text, voice, speed, lang): it raises for a voice
\* it does not know, and otherwise returns audio or raises
StandardOutcomes(voice) == IF voice \in KnownVoices THEN BOOLEAN ELSE {FALSE}

StandardCreate(next_ok, next_fail) ==
    \E ok \in StandardOutcomes(ca_in.voice) :
        /\ ca_attempts' = Append(ca_attempts, [backend |-> "cpu", ok |-> ok])
        /\ ca_runs' = Append(ca_runs, [where |-> "standard",
                                       feed |-> [NoFeed EXCEPT !.speed = 1]])
        /\ ca_pc' = IF ok THEN next_ok ELSE next_fail
        /\ ca_out' = IF ok THEN ResultAudio("array")
                     ELSE IF next_fail = "raised"
                          THEN [NoAudio EXCEPT !.kind = "exception"]
                          ELSE NoAudio

\* an exception leaves _create_audio_npu_accelerated
NpuRaise(err) ==
    /\ ca_attempts' = Append(ca_attempts, [backend |-> "mlir_npu", ok |-> FALSE])
    /\ ca_loc' = [ca_loc EXCEPT !.err = err]
    /\ ca_pc' = "except"

CaCall ==
    /\ ca_pc = "idle"
    /\ ca_calls > 0
    /\ ca_calls' = ca_calls - 1
    /\ \E text \in CaTexts, voice \in CaVoices :
        ca_in' = [text |-> text, voice |-> voice]
    /\ ca_pc' = "try"
    /\ UNCHANGED <<webVars, apiVars, logVars, pcmVars, acceleration_enabled, ca_attempts, ca_loc,
                   ca_runs, ca_out>>

\* lines 120-130: the try block
CaTry ==
    /\ ca_pc = "try"
    /\ IF acceleration_enabled
       THEN /\ ca_pc' = "voice"
            /\ UNCHANGED <<ca_attempts, ca_runs, ca_out>>
       ELSE StandardCreate("returned", "except")
    /\ UNCHANGED <<webVars, apiVars, logVars, pcmVars, acceleration_enabled, ca_calls, ca_in, ca_loc>>

\* lines 142-146: get_voice_style
NpuVoice ==
    /\ ca_pc = "voice"
    /\ IF ca_in.voice \in KnownVoices
       THEN /\ ca_loc' = [ca_loc EXCEPT !.voice_style = ca_in.voice]
            /\ ca_pc' = "tokenize"
            /\ UNCHANGED ca_attempts
       ELSE NpuRaise("UnknownVoice")
    /\ UNCHANGED <<webVars, apiVars, logVars, pcmVars, acceleration_enabled, ca_calls, ca_in,
                   ca_runs, ca_out>>

\* lines 150-157: phonemize, or ValueError for blank text; tokenize
NpuTokenize ==
    /\ ca_pc = "tokenize"
    /\ IF Strip(ca_in.text) # <<>>
       THEN /\ ca_loc' = [ca_loc EXCEPT !.tokens = Tokenize(ca_in.text)]
            /\ ca_pc' = "style"
            /\ UNCHANGED ca_attempts
       ELSE NpuRaise("ValueError")
    /\ UNCHANGED <<webVars, apiVars, logVars, pcmVars, acceleration_enabled, ca_calls, ca_in,
                   ca_runs, ca_out>>

\* lines 160-167: the style row for the token length, the padded tokens
NpuStyle ==
    /\ ca_pc = "style"
    /\ LET table == StyleTable(ca_loc.voice_style)
           i == StyleIndex(ca_loc.tokens)
           row == StyleAt(table, i)
       IN  IF row.st = "ok"
           THEN /\ ca_loc' = [ca_loc EXCEPT
                       !.style = row,
                       !.reads = {i},
                       !.padded = Pad(ca_loc.tokens)]
                /\ ca_pc' = "run"
                /\ UNCHANGED ca_attempts
           ELSE /\ ca_attempts' = Append(ca_attempts,
                                         [backend |-> "mlir_npu", ok |-> FALSE])
                /\ ca_loc' = [ca_loc EXCEPT !.style = row, !.err = "IndexError"]
                /\ ca_pc' = "except"
    /\ UNCHANGED <<webVars, apiVars, logVars, pcmVars, acceleration_enabled, ca_calls, ca_in,
                   ca_runs, ca_out>>

\* lines 169-197 with _handle_npu_optimized_model (lines 86-104): the feed
\* has the tokens when the model has an input of that name; session.run is
\* mlir_npu_accelerated_run; the result is made an array and returned
NpuRun ==
    /\ ca_pc = "run"
    /\ \E has_tokens \in BOOLEAN, accel_result \in ResultKinds,
          default_result \in ResultKinds :
        LET feed == [tokens |-> IF has_tokens THEN ca_loc.padded ELSE <<>>,
                     style |-> ca_loc.style, speed |-> 1]
            run == MlirNpuAcceleratedRun(accel_result, default_result, feed)
        IN  /\ ca_runs' = ca_runs \o run.runs
            /\ ca_loc' = [ca_loc EXCEPT
                   !.feed = feed,
                   !.accel = accel_result,
                   !.default = IF accel_result = "raise" THEN default_result
                               ELSE "none",
                   !.err = IF run.result = "raise" THEN "InferenceError" ELSE ""]
            /\ ca_attempts' = Append(ca_attempts,
                   [backend |-> "mlir_npu", ok |-> run.result # "raise"])
            /\ IF run.result = "raise"
               THEN ca_pc' = "except" /\ UNCHANGED ca_out
               ELSE /\ ca_pc' = "returned"
                    /\ ca_out' = EnsureArray(ResultAudio(run.result))
    /\ UNCHANGED <<webVars, apiVars, logVars, pcmVars, acceleration_enabled, ca_calls, ca_in>>

\* lines 132-135: except Exception, whichever branch raised
CaExcept ==
    /\ ca_pc = "except"
    /\ StandardCreate("returned", "raised")
    /\ UNCHANGED <<webVars, apiVars, logVars, pcmVars, acceleration_enabled, ca_calls, ca_in, ca_loc>>

CaDone ==
    /\ ca_pc \in {"returned", "raised"}
    /\ ca_pc' = "idle"
    /\ ca_in' = NoCall
    /\ ca_attempts' = <<>>
    /\ ca_loc' = NoCaLoc
    /\ ca_runs' = <<>>
    /\ ca_out' = NoAudio
    /\ UNCHANGED <<webVars, apiVars, logVars, pcmVars, acceleration_enabled, ca_calls>>

CreateInit ==
    /\ SYSTEM_STATUS = [npu_available |-> FALSE, mlir_aie_ready |-> FALSE]
    /\ threads = {}
    /\ budget = 0
    /\ dom = NarrowDom
    /\ pc = [r \in Threads |-> "idle"]
    /\ req = [r \in Threads |-> NoReq]
    /\ proc = [r \in Threads |-> NoProc]
    /\ local = [r \in Threads |-> NoLocal]
    /\ resp = [r \in Threads |-> NoResp]
    /\ tmp_scripts = {}
    /\ artifact = NoFile
    /\ wav_files = {}
    /\ clock = 0
    /\ performance_metrics = <<>>
    /\ completed = <<>>
    /\ logged = [r \in Threads |-> <<>>]
    /\ emitted = [r \in Threads |-> <<>>]
    /\ acceleration_enabled \in BOOLEAN
    /\ ca_calls = MaxCalls
    /\ CaIdle
    /\ ApiQuiet

CreateNext ==
    \/ CaCall
    \/ CaTry
    \/ NpuVoice
    \/ NpuTokenize
    \/ NpuStyle
    \/ NpuRun
    \/ CaExcept
    \/ CaDone

CreateSpec == CreateInit /\ [][CreateNext]_vars

(***************************************************************************)
(* get_metrics (GET /metrics), lines 1577-1588.  The response is built by  *)
(* one expression that reads the module-level deque several times, in the  *)
(* order Python evaluates it: the slice for 'recent', len() for            *)
(* 'total_generations', then for each average the truth of the deque, the  *)
(* sum over a generator and len(), then the set of methods.  The handler   *)
(* holds no lock, and the server runs handlers on threads, so an append of *)
(* synthesize() (line 1475) can fall between any two of the reads.         *)
(***************************************************************************)
\* the deque's mutation count: every append changes it
RingState == Len(completed)

\* list(performance_metrics)[-20:]
Recent(d) ==
    IF Len(d) <= RecentLen THEN d ELSE SubSeq(d, Len(d) - RecentLen + 1, Len(d))

\* sum(m[f] for m in d)
RECURSIVE SumOf(_, _)
SumOf(d, f) == IF d = <<>> THEN 0 ELSE d[1][f] + SumOf(Tail(d), f)

\* set(m['method'] for m in d)
MethodsOf(d) == {d[i].method : i \in 1..Len(d)}

\* Requests that produce audio; the real-time factor differs from the
\* generation time.
MetricsDom == [texts |-> {<<"h", "i">>}, voices |-> KnownVoices,
               methods |-> {"auto"}, pres |-> {<<>>},
               outcomes |-> {"save"}, endings |-> {"print_exit"},
               gen_times |-> {500}, audio_lens |-> {2 * KokoroSampleRate}]

\* A short run whose metrics are read from the start (the ring is empty or
\* nearly so), and a long run whose metrics are read once the ring is about
\* as long as the 'recent' window.
MetricsScenarios ==
    {[budget |-> MetricsExtra, when |-> 0..MetricsExtra],
     [budget |-> RecentLen + MetricsExtra,
      when |-> (RecentLen - 1)..(RecentLen + MetricsExtra)]}

MetricsInit ==
    /\ SYSTEM_STATUS = [npu_available |-> FALSE, mlir_aie_ready |-> FALSE]
    /\ threads = {1}
    /\ \E sc \in MetricsScenarios : budget = sc.budget /\ m_when = sc.when
    /\ dom = MetricsDom
    /\ InitCommon
    /\ m_calls = MaxMetricsCalls
    /\ MetricsIdle
    /\ ChannelQuiet
    /\ PcmQuiet
    /\ SettingsAtImport
    /\ s_calls = 0
    /\ a_calls = 0
    /\ a_last = NoServe

MetricsCall ==
    /\ m_pc = "idle"
    /\ m_calls > 0
    /\ Len(performance_metrics) \in m_when
    /\ m_calls' = m_calls - 1
    /\ m_pc' = "recent"
    /\ UNCHANGED <<webVars, caVars, logVars, pcmVars, setVars, audVars, m_when, m_f, m_loc, m_ver>>

\* 'recent': list(performance_metrics)[-20:]
MetricsRecent ==
    /\ m_pc = "recent"
    /\ m_loc' = [m_loc EXCEPT !.recent = Recent(performance_metrics)]
    /\ m_ver' = [lo |-> RingState, hi |-> RingState]
    /\ m_pc' = "total"
    /\ UNCHANGED <<webVars, caVars, logVars, pcmVars, setVars, audVars, m_calls, m_when, m_f>>

\* 'total_generations': len(performance_metrics)
MetricsTotal ==
    /\ m_pc = "total"
    /\ m_loc' = [m_loc EXCEPT !.total = Len(performance_metrics)]
    /\ m_ver' = [m_ver EXCEPT !.hi = RingState]
    /\ m_pc' = "cond"
    /\ m_f' = "rtf"
    /\ UNCHANGED <<webVars, caVars, logVars, pcmVars, setVars, audVars, m_calls, m_when>>

\* what follows the average of field f
AfterAverage(f) ==
    IF f = "rtf"
    THEN m_pc' = "cond" /\ m_f' = "generation_time"
    ELSE m_pc' = "iter" /\ m_f' = "method"

\* "... if performance_metrics else 0"
MetricsCond ==
    /\ m_pc = "cond"
    /\ m_ver' = [m_ver EXCEPT !.hi = RingState]
    /\ IF performance_metrics # <<>>
       THEN m_pc' = "iter" /\ UNCHANGED <<m_f, m_loc>>
       ELSE /\ m_loc' = [m_loc EXCEPT ![m_f] = [sum |-> 0, n |-> 1]]
            /\ AfterAverage(m_f)
    /\ UNCHANGED <<webVars, caVars, logVars, pcmVars, setVars, audVars, m_calls, m_when>>

\* the generator starts to iterate over the deque
MetricsIter ==
    /\ m_pc = "iter"
    /\ m_loc' = [m_loc EXCEPT !.it = RingState]
    /\ m_pc' = "sum"
    /\ UNCHANGED <<webVars, caVars, logVars, pcmVars, setVars, audVars, m_calls, m_when, m_f, m_ver>>

\* the generator is exhausted: sum(...) or set(...) has its value, unless
\* the deque was appended to meanwhile ("deque mutated during iteration",
\* RuntimeError, answered with 500)
MetricsSum ==
    /\ m_pc = "sum"
    /\ IF RingState # m_loc.it
       THEN /\ m_loc' = [m_loc EXCEPT !.status = 500]
            /\ m_ver' = [m_ver EXCEPT !.hi = RingState]
            /\ m_pc' = "done"
            /\ UNCHANGED m_f
       ELSE /\ m_ver' = [m_ver EXCEPT !.hi = RingState]
            /\ IF m_f = "method"
               THEN /\ m_loc' = [m_loc EXCEPT
                           !.methods = MethodsOf(performance_metrics),
                           !.status = 200]
                    /\ m_pc' = "done"
                    /\ UNCHANGED m_f
               ELSE /\ m_loc' = [m_loc EXCEPT
                           ![m_f].sum = SumOf(performance_metrics, m_f)]
                    /\ m_pc' = "len"
                    /\ UNCHANGED m_f
    /\ UNCHANGED <<webVars, caVars, logVars, pcmVars, setVars, audVars, m_calls, m_when>>

\* "... / len(performance_metrics)"
MetricsLen ==
    /\ m_pc = "len"
    /\ m_loc' = [m_loc EXCEPT ![m_f].n = Len(performance_metrics)]
    /\ m_ver' = [m_ver EXCEPT !.hi = RingState]
    /\ AfterAverage(m_f)
    /\ UNCHANGED <<webVars, caVars, logVars, pcmVars, setVars, audVars, m_calls, m_when>>

\* the response has been sent
MetricsReturn ==
    /\ m_pc = "done"
    /\ m_pc' = "idle"
    /\ m_f' = ""
    /\ m_loc' = NoMetrics
    /\ m_ver' = [lo |-> 0, hi |-> 0]
    /\ UNCHANGED <<webVars, caVars, logVars, pcmVars, setVars, audVars, m_calls, m_when>>

MetricsNext ==
    \/ Next
    \/ MetricsCall
    \/ MetricsRecent
    \/ MetricsTotal
    \/ MetricsCond
    \/ MetricsIter
    \/ MetricsSum
    \/ MetricsLen
    \/ MetricsReturn

MetricsSpec == MetricsInit /\ [][MetricsNext]_vars

(***************************************************************************)
(* serve_audio (GET /audio/<filename>), lines 1507-1523: a file that is    *)
(* there is sent after an INFO record; a file that is not there is         *)
(* answered 404 after an ERROR record; an exception of send_file is        *)
(* answered 500 after an ERROR record.                                     *)
(***************************************************************************)
\* the file names clients ask for: the WAV files of this run and one more
AudioNames == 1..(MaxLogRequests + 1)

ServeAudio ==
    /\ a_calls > 0
    /\ a_calls' = a_calls - 1
    /\ \E filename \in AudioNames, send_ok \in BOOLEAN :
        a_last' =
            IF filename \in wav_files
            THEN IF send_ok
                 THEN [filename |-> filename, status |-> 200,
                       logs |-> LogTo(<<>>, "INFO", "Serving real speech file")]
                 ELSE [filename |-> filename, status |-> 500,
                       logs |-> LogTo(LogTo(<<>>, "INFO",
                                            "Serving real speech file"),
                                      "ERROR", "Audio serving error")]
            ELSE [filename |-> filename, status |-> 404,
                  logs |-> LogTo(<<>>, "ERROR", "Real audio file not found")]
    /\ UNCHANGED <<webVars, caVars, logVars, pcmVars, metVars, setVars>>

LogInit ==
    /\ SYSTEM_STATUS = [npu_available |-> FALSE, mlir_aie_ready |-> FALSE]
    /\ threads = {1}
    /\ budget = MaxLogRequests
    /\ dom = FullDom
    /\ InitCommon
    /\ m_calls = 0
    /\ m_when = {}
    /\ MetricsIdle
    /\ ChannelQuiet
    /\ PcmQuiet
    /\ SettingsAtImport
    /\ s_calls = 0
    /\ a_calls = MaxAudioCalls
    /\ a_last = NoServe

LogNext ==
    \/ Next
    \/ ServeAudio

LogSpec == LogInit /\ [][LogNext]_vars

(***************************************************************************)
(* settings (GET|POST /settings), lines 1552-1570.                         *)
(***************************************************************************)
\* APP_SETTINGS of web_interface_enhanced.py (lines 75-86)
EnhancedSettings ==
    [preferred_method |-> "mlir_npu", audio_quality |-> "high",
     sample_rate |-> "24000", speed |-> "1.0", pitch |-> "1.0",
     auto_play |-> "true", log_level |-> "INFO",
     max_text_length |-> "1000", show_advanced |-> "true",
     enable_monitoring |-> "true"]

\* The keys and values clients send.
SentKeys == {"preferred_method", "log_level", "sample_rate",
             "enable_monitoring", "bogus"}

SentValues(key) ==
    CASE key = "preferred_method" -> {"cpu", "auto"}
      [] key = "log_level"        -> {"ERROR", "LOUD"}
      [] key = "sample_rate"      -> {"22050"}
      [] key = "enable_monitoring" -> {"false"}
      [] OTHER                    -> {"x"}

SentPairs == UNION {{<<k, v>> : v \in SentValues(k)} : k \in SentKeys}

\* request.get_json(): an object, as the items of the dict in order, or
\* JSON that is no object
Bodies ==
    {[kind |-> "other", items |-> <<>>]} \cup
    {[kind |-> "object", items |-> items] :
        items \in {q \in UNION {[1..n -> SentPairs] : n \in 0..MaxBodyKeys} :
                     \A i, j \in 1..Len(q) : i # j => q[i][1] # q[j][1]}}

\* APP_SETTINGS[key] = value for every key of the body
RECURSIVE UpdateAny(_, _)
UpdateAny(S, items) ==
    IF items = <<>> THEN S
    ELSE LET key == items[1][1]
             value == items[1][2]
         IN  UpdateAny([k \in DOMAIN S \cup {key} |->
                            IF k = key THEN value ELSE S[k]],
                       Tail(items))

\* lines 1559-1562: for key, value in data.items(): if key in APP_SETTINGS
RECURSIVE UpdateSettings(_, _)
UpdateSettings(S, items) ==
    IF items = <<>> THEN S
    ELSE LET key == items[1][1]
             value == items[1][2]
         IN  UpdateSettings(IF key \in DOMAIN S
                            THEN [S EXCEPT ![key] = value]
                            ELSE S,
                            Tail(items))

\* line 1562: one INFO record for each key that was set
RECURSIVE UpdateLogs(_, _)
UpdateLogs(S, items) ==
    IF items = <<>> THEN <<>>
    ELSE IF items[1][1] \in DOMAIN S
    THEN LogTo(<<>>, "INFO", "Setting updated") \o UpdateLogs(S, Tail(items))
    ELSE UpdateLogs(S, Tail(items))

SettingsInit ==
    /\ SYSTEM_STATUS = [npu_available |-> FALSE, mlir_aie_ready |-> FALSE]
    /\ threads = {}
    /\ budget = 0
    /\ dom = NarrowDom
    /\ InitCommon
    /\ m_calls = 0
    /\ m_when = {}
    /\ MetricsIdle
    /\ ChannelQuiet
    /\ PcmQuiet
    /\ APP_SETTINGS \in {MagicSettings, EnhancedSettings}
    /\ root_level = "INFO"
    /\ s_last = NoSettingsCall
    /\ s_calls = MaxSettingsCalls
    /\ a_calls = 0
    /\ a_last = NoServe

\* POST: data.items() raises for a body that is no object; the loop sets
\* the keys; getattr(logging, data['log_level']) raises for a name the
\* logging module does not have, after the loop
PostSettings ==
    /\ s_calls > 0
    /\ s_calls' = s_calls - 1
    /\ \E body \in Bodies :
        LET sent == {body.items[i][1] : i \in 1..Len(body.items)}
            level == (CHOOSE i \in 1..Len(body.items) :
                          body.items[i][1] = "log_level")
        IN  IF body.kind # "object"
            THEN /\ s_last' = [method |-> "POST", body |-> body,
                               before |-> APP_SETTINGS, status |-> 500,
                               logs |-> <<>>]
                 /\ UNCHANGED <<APP_SETTINGS, root_level>>
            ELSE /\ APP_SETTINGS' = UpdateSettings(APP_SETTINGS, body.items)
                 /\ LET known == "log_level" \in sent
                                 /\ body.items[level][2] \in LevelNames
                    IN  /\ root_level' = IF known THEN body.items[level][2]
                                         ELSE root_level
                        /\ s_last' = [method |-> "POST", body |-> body,
                               before |-> APP_SETTINGS,
                               status |-> IF "log_level" \in sent /\ ~known
                                          THEN 500 ELSE 200,
                               logs |-> UpdateLogs(APP_SETTINGS, body.items)]
    /\ UNCHANGED <<webVars, caVars, logVars, pcmVars, metVars, audVars>>

\* GET: return jsonify(APP_SETTINGS)
GetSettings ==
    /\ s_calls > 0
    /\ s_calls' = s_calls - 1
    /\ s_last' = [method |-> "GET", body |-> [kind |-> "none", items |-> <<>>],
                  before |-> APP_SETTINGS, status |-> 200, logs |-> <<>>]
    /\ UNCHANGED <<webVars, caVars, logVars, pcmVars, metVars, audVars, APP_SETTINGS, root_level>>

SettingsNext ==
    \/ PostSettings
    \/ GetSettings

SettingsSpec == SettingsInit /\ [][SettingsNext]_vars

(***************************************************************************)
(* The log channel (lines 31-53 and 1598-1629).  WebLogHandler is a        *)
(* handler of the root logger: every record that passes the level of the   *)
(* root logger reaches WebLogHandler.emit, whatever thread logs it, and    *)
(* logging.Handler.handle runs emit under the handler's lock.  emit builds *)
(* the entry, appends it to log_buffer and puts it on log_queue.  The      *)
(* socket handlers send list(log_buffer) to the client that asks, and the  *)
(* daemon thread log_streamer takes the entries off log_queue and emits    *)
(* each as new_log.  socketio.emit is a call into Flask-SocketIO: the      *)
(* model records the call.                                                 *)
(*                                                                         *)
(* The specifications of the request path keep the handler's records per   *)
(* request (logged); the specifications of the log channel keep the deque  *)
(* and the queue, and the records of every thread.                         *)
(***************************************************************************)
LogBufferMaxLen == 1000   \* log_buffer = deque(maxlen=1000)

\* lines 39-44: the entry of a record; n is the number of the capture (two
\* entries of the program can be equal, the model tells them apart)
LogEntry(n, level, message) == [n |-> n, level |-> level, message |-> message]

\* logger.isEnabledFor(level): the logger has no level of its own
IsEnabledFor(level) == LevelNo(level) >= LevelNo(root_level)

\* log_buffer.appendleft(entry)
BufferAppendLeft(buf, entry) ==
    IF Len(buf) = LogBufferMaxLen
    THEN <<entry>> \o SubSeq(buf, 1, Len(buf) - 1)
    ELSE <<entry>> \o buf

\* line 45: log_buffer.append(log_entry)
BufferAppend(buf, entry) == DequeAppend(buf, entry, LogBufferMaxLen)

\* a handler that keeps the history only
NoPut(q, entry) == q

\* line 46: log_queue.put(log_entry), an unbounded FIFO queue
QueuePut(q, entry) == Append(q, entry)

\* A scenario.  records: what the threads log; levels: at which levels;
\* hold: the captures before log_streamer and the socket handlers are first
\* scheduled; events: the socket events; clients: the clients that cause
\* them; takes: the entries log_streamer takes
ShortScenario ==
    [records |-> MaxStreamRecords, levels |-> {"DEBUG", "INFO"},
     hold |-> 0, events |-> MaxSocketEvents, clients |-> Clients,
     takes |-> MaxStreamRecords + MaxSocketEvents]

\* ShortScenario with one client.
OneClientScenario == [ShortScenario EXCEPT !.clients = {1}]

LongScenario ==
    [records |-> LogBufferMaxLen + LogExtra, levels |-> {"INFO"},
     hold |-> LogBufferMaxLen - 1, events |-> 1, clients |-> Clients,
     takes |-> MaxTakes]

\* The burst of LongScenario is out and log_streamer streams all of it.
BurstScenario ==
    [records |-> LogExtra + 1, levels |-> {"INFO"},
     hold |-> LogBufferMaxLen - 1, events |-> 0, clients |-> {},
     takes |-> LogBufferMaxLen + LogExtra]

\* log_streamer and the socket handlers have been scheduled
Scheduled == Len(captured) >= l_sc.hold

\* WebLogHandler.emit up to line 45, entered through Handler.handle, which
\* takes the handler's lock: the entry is built and appended to log_buffer
HandlerAppend(by, level, message) ==
    /\ h_lock = NoLock
    /\ LET log_entry == LogEntry(Len(captured) + 1, level, message) IN
        /\ log_buffer' = BufferAppend(log_buffer, log_entry)
        /\ captured' = Append(captured, log_entry)
        /\ h_lock' = [entry |-> log_entry, by |-> by]

\* logger.debug / info / error of a thread that is no socket handler
LogRecord ==
    /\ l_budget > 0
    /\ l_budget' = l_budget - 1
    /\ \E level \in l_sc.levels :
        IF IsEnabledFor(level)
        THEN HandlerAppend(0, level, "record")
        ELSE UNCHANGED <<log_buffer, captured, h_lock>>
    /\ UNCHANGED <<webVars, caVars, apiVars, pcmVars, log_queue, l_sc, st_entry,
                   st_budget, streamed, c_budget, c_pc, inbox>>

\* WebLogHandler.emit, line 46, and the release of the handler's lock
HandlerPut ==
    /\ h_lock # NoLock
    /\ log_queue' = QueuePut(log_queue, h_lock.entry)
    /\ h_lock' = NoLock
    /\ UNCHANGED <<webVars, caVars, apiVars, pcmVars, log_buffer, l_budget, l_sc,
                   captured, st_entry, st_budget, streamed, c_budget, c_pc,
                   inbox>>

\* emit('log_buffer', list(log_buffer)) in a socket handler: one message to
\* the client of the event; at is the number of captures so far
SendBuffer(c, on) ==
    inbox' = [inbox EXCEPT ![c] =
        Append(inbox[c], [event |-> "log_buffer", on |-> on,
                          data |-> log_buffer, at |-> Len(captured)])]

\* handle_connect, line 1602
HandleConnect(c) ==
    /\ Scheduled
    /\ c \in l_sc.clients
    /\ c_budget > 0
    /\ c_pc[c] = "off"
    /\ c_budget' = c_budget - 1
    /\ c_pc' = [c_pc EXCEPT ![c] = "connect"]
    /\ inbox' = [inbox EXCEPT ![c] = <<>>]
    /\ IF IsEnabledFor("INFO")
       THEN HandlerAppend(c, "INFO", "Client connected to WebSocket")
       ELSE UNCHANGED <<log_buffer, captured, h_lock>>
    /\ UNCHANGED <<webVars, caVars, apiVars, pcmVars, log_queue, l_budget, l_sc,
                   st_entry, st_budget, streamed>>

\* handle_connect, line 1603, once logger.info has returned
ConnectSend(c) ==
    /\ c_pc[c] = "connect"
    /\ h_lock.by # c
    /\ SendBuffer(c, "connect")
    /\ c_pc' = [c_pc EXCEPT ![c] = "on"]
    /\ UNCHANGED <<webVars, caVars, apiVars, pcmVars, log_buffer, log_queue, h_lock,
                   l_budget, l_sc, captured, st_entry, st_budget, streamed,
                   c_budget>>

\* handle_log_request, lines 1610-1613
HandleLogRequest(c) ==
    /\ c_budget > 0
    /\ c_pc[c] = "on"
    /\ c_budget' = c_budget - 1
    /\ SendBuffer(c, "request_logs")
    /\ UNCHANGED <<webVars, caVars, apiVars, pcmVars, log_buffer, log_queue, h_lock,
                   l_budget, l_sc, captured, st_entry, st_budget, streamed,
                   c_pc>>

\* handle_disconnect, lines 1605-1608
HandleDisconnect(c) ==
    /\ c_budget > 0
    /\ c_pc[c] = "on"
    /\ c_budget' = c_budget - 1
    /\ c_pc' = [c_pc EXCEPT ![c] = "off"]
    /\ IF IsEnabledFor("INFO")
       THEN HandlerAppend(c, "INFO", "Client disconnected from WebSocket")
       ELSE UNCHANGED <<log_buffer, captured, h_lock>>
    /\ UNCHANGED <<webVars, caVars, apiVars, pcmVars, log_queue, l_budget, l_sc,
                   st_entry, st_budget, streamed, inbox>>

\* log_streamer, line 1620: log_queue.get(timeout=1) returns the oldest
\* entry; while the queue is empty it raises queue.Empty and the loop goes
\* round
StreamerGet ==
    /\ Scheduled
    /\ st_budget > 0
    /\ st_entry = NoEntry
    /\ log_queue # <<>>
    /\ st_entry' = Head(log_queue)
    /\ log_queue' = Tail(log_queue)
    /\ st_budget' = st_budget - 1
    /\ UNCHANGED <<webVars, caVars, apiVars, pcmVars, log_buffer, h_lock, l_budget,
                   l_sc, captured, streamed, c_budget, c_pc, inbox>>

\* log_streamer, line 1621: socketio.emit('new_log', log_entry)
StreamerEmit ==
    /\ st_entry # NoEntry
    /\ streamed' = Append(streamed, st_entry)
    /\ st_entry' = NoEntry
    /\ UNCHANGED <<webVars, caVars, apiVars, pcmVars, log_buffer, log_queue, h_lock,
                   l_budget, l_sc, captured, st_budget, c_budget, c_pc,
                   inbox>>

\* No /synthesize, /metrics, /settings or /audio client.
ChannelOnly ==
    /\ SYSTEM_STATUS = [npu_available |-> FALSE, mlir_aie_ready |-> FALSE]
    /\ threads = {}
    /\ budget = 0
    /\ dom = NarrowDom
    /\ InitCommon
    /\ m_calls = 0
    /\ m_when = {}
    /\ m_pc = "idle"
    /\ m_f = ""
    /\ m_loc = NoMetrics
    /\ m_ver = [lo |-> 0, hi |-> 0]
    /\ SettingsAtImport
    /\ s_calls = 0
    /\ a_calls = 0
    /\ a_last = NoServe

ChannelStart(sc) ==
    /\ l_sc = sc
    /\ l_budget = sc.records
    /\ st_budget = sc.takes
    /\ c_budget = sc.events
    /\ h_lock = NoLock
    /\ st_entry = NoEntry
    /\ streamed = <<>>
    /\ c_pc = [c \in Clients |-> "off"]
    /\ inbox = [c \in Clients |-> <<>>]

StreamInit ==
    /\ ChannelOnly
    /\ PcmQuiet
    /\ \E sc \in {ShortScenario, LongScenario} : ChannelStart(sc)
    /\ log_buffer = <<>>
    /\ log_queue = <<>>
    /\ captured = <<>>

StreamNext ==
    \/ LogRecord
    \/ HandlerPut
    \/ \E c \in Clients :
        \/ HandleConnect(c)
        \/ ConnectSend(c)
        \/ HandleLogRequest(c)
        \/ HandleDisconnect(c)
    \/ StreamerGet
    \/ StreamerEmit

StreamSpec == StreamInit /\ [][StreamNext]_vars

\* The state of StreamSpec in which the threads have logged
\* LogBufferMaxLen - 1 records in a burst before log_streamer first ran.
Burst ==
    LET entries == [i \in 1..(LogBufferMaxLen - 1) |->
                        LogEntry(i, "INFO", "record")]
    IN  /\ log_buffer = entries
        /\ log_queue = entries
        /\ captured = entries

FairStreamInit ==
    /\ ChannelOnly
    /\ PcmQuiet
    /\ PcmQuiet
    /\ \/ ChannelStart(OneClientScenario)
          /\ log_buffer = <<>> /\ log_queue = <<>> /\ captured = <<>>
       \/ ChannelStart(BurstScenario) /\ Burst

(***************************************************************************)
(* Fairness: the log_streamer thread is scheduled, and a thread inside     *)
(* WebLogHandler.emit leaves it.  Nothing makes a thread log a record or   *)
(* a client connect.                                                       *)
(***************************************************************************)
StreamFairness ==
    /\ WF_vars(StreamerGet)
    /\ WF_vars(StreamerEmit)
    /\ WF_vars(HandlerPut)

FairStreamSpec == FairStreamInit /\ [][StreamNext]_vars /\ StreamFairness

(***************************************************************************)
(* The samples of the WAV file (synthesize, lines 1452-1458):              *)
(*   audio_int16 = (np.clip(audio, -1.0, 1.0) * 32767).astype(np.int16)    *)
(* A float sample is the rational k / SampleSteps, held as the integer k   *)
(* (with SampleSteps = 2^8 the products below are exact in float32 too).   *)
(* astype(np.int16) is the C conversion: the fraction is dropped (rounding *)
(* towards zero) and the integer keeps its low 16 bits.  Every sample is   *)
(* a number (an infinity is clipped like any large sample); an array with  *)
(* NaN in it is not modelled.                                              *)
(***************************************************************************)
Int16Scale == 32767

\* the samples taken as they are
NoClip(k) == k

\* np.clip(x, -1.0, 1.0)
Clip(k) ==
    IF k < -SampleSteps THEN -SampleSteps
    ELSE IF k > SampleSteps THEN SampleSteps
    ELSE k

\* the integer part of a / b, b > 0, rounding towards zero
TruncDiv(a, b) == IF a >= 0 THEN a \div b ELSE -((-a) \div b)

\* an integer as a signed 16-bit value
WrapInt16(n) == ((n + 32768) % 65536) - 32768

\* (x * 32767).astype(np.int16)
ScaleToInt16(k) == WrapInt16(TruncDiv(k * Int16Scale, SampleSteps))

\* line 1457
ToPcm(k) == ScaleToInt16(Clip(k))

PcmSamples == (-MaxSampleSteps)..MaxSampleSteps

PcmInit ==
    /\ ChannelOnly
    /\ ChannelQuiet
    /\ \E k \in PcmSamples : pcm_audio = <<k>>
    /\ audio_int16 = <<>>

\* wav_file.writeframes(audio_int16.tobytes()), lines 1457-1458
WriteFrames ==
    /\ pcm_audio # <<>>
    /\ audio_int16 = <<>>
    /\ audio_int16' = [i \in 1..Len(pcm_audio) |-> ToPcm(pcm_audio[i])]
    /\ UNCHANGED <<webVars, caVars, apiVars, logVars, pcm_audio>>

PcmNext == WriteFrames

PcmSpec == PcmInit /\ [][PcmNext]_vars

(***************************************************************************)
(* /synthesize under every method and under two configuration maps: the    *)
(* map of the import, and one in which POST /settings has stored another   *)
(* speed and another preferred method.                                     *)
(***************************************************************************)
MethodDom == [texts |-> {<<" ">>, <<"h", "i">>}, voices |-> Voices,
              methods |-> Methods, pres |-> {<<>>, <<"brace">>},
              outcomes |-> WorkerOutcomes, endings |-> WorkerEndings,
              gen_times |-> {500}, audio_lens |-> {0, KokoroSampleRate}]

StoredSettings ==
    {MagicSettings,
     [MagicSettings EXCEPT !.speed = "2.0", !.preferred_method = "cpu"]}

MethodInit ==
    /\ SYSTEM_STATUS = [npu_available |-> TRUE, mlir_aie_ready |-> TRUE]
    /\ threads = {1}
    /\ budget = MaxMethodRequests
    /\ dom = MethodDom
    /\ InitCommon
    /\ m_calls = 0
    /\ m_when = {}
    /\ m_pc = "idle"
    /\ m_f = ""
    /\ m_loc = NoMetrics
    /\ m_ver = [lo |-> 0, hi |-> 0]
    /\ ChannelQuiet
    /\ PcmQuiet
    /\ APP_SETTINGS \in StoredSettings
    /\ root_level = "INFO"
    /\ s_last = NoSettingsCall
    /\ s_calls = 0
    /\ a_calls = 0
    /\ a_last = NoServe

MethodSpec == MethodInit /\ [][Next]_vars

(***************************************************************************)
(* Two request threads, workers whose output makes the parent raise while  *)
(* it parses (a JSON line without 'success') or while it loads the audio   *)
(* artifact (removed for the other request).                               *)
(***************************************************************************)
ScriptDom == [texts |-> {<<"h", "i">>}, voices |-> KnownVoices,
              methods |-> {"auto"}, pres |-> {<<>>, <<"json_other">>},
              outcomes |-> WorkerOutcomes, endings |-> WorkerEndings,
              gen_times |-> {500}, audio_lens |-> {KokoroSampleRate}]

ScriptInit ==
    /\ SYSTEM_STATUS = [npu_available |-> TRUE, mlir_aie_ready |-> TRUE]
    /\ threads = {r \in Threads : r <= 2}
    /\ budget = MaxRequests
    /\ dom = ScriptDom
    /\ InitCommon
    /\ ApiQuiet

ScriptSpec == ScriptInit /\ [][Next]_vars

(***************************************************************************)
(* Properties.                                                             *)
(***************************************************************************)

\* C1: when the worker exits with a non-zero code, /synthesize answers 500
\* with success false, the error message holds the worker's stdout and
\* stderr, and neither the worker script nor the audio artifact the worker
\* wrote for this request is left on disk.
C1_NonZeroExitLeavesNothing ==
    \A r \in Threads :
        (pc[r] = "done" /\ proc[r].st = "exited" /\ proc[r].rc # 0) =>
            /\ resp[r].status = 500
            /\ ~resp[r].success
            /\ {"stdout", "stderr"} \subseteq resp[r].fields
            /\ req[r].id \notin tmp_scripts
            /\ artifact.by # req[r].id

\* The worker printed a result line with success true (the first line in
\* braces is that line).
SuccessLine(p) ==
    /\ p.rc = 0
    /\ ~StdoutEmpty(p.out)
    /\ FirstBraced(p.out, 1) # 0
    /\ p.out[FirstBraced(p.out, 1)] = "ok"

\* The first line in braces is one of the worker's two result lines.
StructuredLine(p) ==
    /\ FirstBraced(p.out, 1) # 0
    /\ p.out[FirstBraced(p.out, 1)] \in {"ok", "fail"}

\* C2: a non-zero exit code, empty stdout, stdout without a parsable
\* structured line, and a success line whose audio artifact is not there all
\* end run_synthesis_subprocess the same way: a failure result that carries
\* the worker's stderr and (where there is any) stdout; none leaves it as an
\* exception.
C2_DeviationsNormalized ==
    \A r \in Threads :
        (/\ pc[r] = "done"
         /\ proc[r].st = "exited"
         /\ \/ proc[r].rc # 0
            \/ StdoutEmpty(proc[r].out)
            \/ ~StructuredLine(proc[r])
            \/ SuccessLine(proc[r]) /\ local[r].result # "returned_success")
        => /\ local[r].result = "returned_failure"
           /\ "stderr" \in local[r].fields
           /\ ~StdoutEmpty(proc[r].out) => "stdout" \in local[r].fields

\* C3: with requests in flight together, a request that succeeds returns
\* the audio of its own worker, and no request fails because the audio
\* artifact its worker wrote was read or deleted for another request.
C3_RequestsIsolated ==
    \A r \in Threads :
        pc[r] = "done" =>
            /\ resp[r].success => resp[r].audio.by = req[r].id
            /\ local[r].kind # "FileNotFoundError"

\* C4: an attempt that fails on a backend other than CPU is followed by
\* exactly one attempt on CPU, an attempt that fails on CPU by none, and no
\* request makes more than two attempts.
C4_OneCpuFallback ==
    ca_pc \in {"returned", "raised"} =>
        /\ Len(ca_attempts) \in {1, 2}
        /\ (ca_attempts[1].backend # "cpu" /\ ~ca_attempts[1].ok) =>
                (Len(ca_attempts) = 2 /\ ca_attempts[2].backend = "cpu")
        /\ (ca_attempts[1].backend = "cpu" /\ ~ca_attempts[1].ok) =>
                Len(ca_attempts) = 1
        /\ ca_attempts[1].ok => Len(ca_attempts) = 1

\* C5: run_synthesis_subprocess does not block for ever: a worker that has
\* not exited when the timeout expires is killed, the call ends with
\* TimeoutExpired, /synthesize answers 500, and every request that was
\* started ends with a response.
C5_TimeoutEndsRequest ==
    /\ \A r \in Threads : (pc[r] \notin {"idle", "done"}) ~> (pc[r] = "done")
    /\ [](\A r \in Threads :
            /\ proc[r].st = "killed" =>
                  /\ pc[r] = "done"
                  /\ local[r].result = "raised"
                  /\ local[r].kind = "TimeoutExpired"
                  /\ resp[r].status = 500
                  /\ ~resp[r].success
            /\ pc[r] = "done" => resp[r].status \in {200, 400, 500})

C5_Witness ==
    \E r \in Threads :
        /\ pc[r] = "done"
        /\ proc[r].st = "killed"
        /\ resp[r].status = 500

\* "empty or only whitespace", stated without str.strip
IsBlank(text) == \A i \in 1..Len(text) : text[i] \in Whitespace

\* C6: text that is empty or only whitespace is answered with 400 and
\* success false in the step that receives it, and that step starts no
\* worker, writes no file and appends no metric record.
C6_BlankTextRejected ==
    /\ [][\A r \in Threads :
            (pc[r] = "idle" /\ pc'[r] # "idle" /\ IsBlank(req'[r].text)) =>
                /\ pc'[r] = "done"
                /\ resp'[r].status = 400
                /\ ~resp'[r].success
                /\ UNCHANGED <<proc, tmp_scripts, artifact, wav_files,
                               performance_metrics, completed>>]_vars
    /\ [](\A r \in Threads :
            (pc[r] # "idle" /\ IsBlank(req[r].text)) =>
                (pc[r] = "done" /\ proc[r].st = "none"))

C6_Witness ==
    \E r \in Threads :
        /\ pc[r] = "done"
        /\ req[r].text = <<"\t", "\n">>
        /\ resp[r].status = 400
        /\ proc[r].st = "none"

\* Capability as the selector of the specification sees it.
AcceleratedAvailable ==
    SYSTEM_STATUS.npu_available /\ SYSTEM_STATUS.mlir_aie_ready
BasicAcceleratedAvailable == SYSTEM_STATUS.npu_available

\* C7: for method "auto" the backend is accelerated when that is available,
\* otherwise basic-accelerated when that is available, otherwise CPU.
C7_AutoSelection ==
    \A r \in Threads :
        (proc[r].st # "none" /\ req[r].method = "auto") =>
            proc[r].backend =
                IF AcceleratedAvailable THEN "mlir_npu"
                ELSE IF BasicAcceleratedAvailable THEN "npu_basic"
                ELSE "cpu"

\* C8: an explicitly requested method is the backend used when it is
\* available, and CPU is used when it is not; selecting never fails the
\* request.
C8_ExplicitSelection ==
    \A r \in Threads :
        (proc[r].st # "none" /\ req[r].method \in {"mlir_npu", "npu_basic", "cpu"})
        => proc[r].backend =
                CASE req[r].method = "mlir_npu" ->
                        IF AcceleratedAvailable THEN "mlir_npu" ELSE "cpu"
                  [] req[r].method = "npu_basic" ->
                        IF BasicAcceleratedAvailable THEN "npu_basic" ELSE "cpu"
                  [] OTHER -> "cpu"

\* C9: when the worker returns audio of zero samples, the real-time factor
\* is 0 and nothing is raised: the request succeeds and its metric record
\* has rtf 0.
C9_ZeroSamplesRtfZero ==
    \A r \in Threads :
        (/\ pc[r] = "done"
         /\ local[r].result = "returned_success"
         /\ local[r].audio.len = 0)
        => /\ resp[r].success
           /\ performance_metrics # <<>>
           /\ performance_metrics[Len(performance_metrics)].rtf = 0

\* The last n elements of a sequence (all of it when it is shorter).
LastN(seq, n) ==
    IF Len(seq) <= n THEN seq ELSE SubSeq(seq, Len(seq) - n + 1, Len(seq))

\* C10: the metrics ring holds at most 100 records, and they are the
\* records of the most recent (up to 100) successful requests in completion
\* order.
C10_RingKeepsLastHundred ==
    /\ Len(performance_metrics) <= MetricsMaxLen
    /\ performance_metrics = LastN(completed, MetricsMaxLen)

C10_Witness ==
    /\ Len(completed) > MetricsMaxLen
    /\ Len(performance_metrics) = MetricsMaxLen
    /\ performance_metrics[1].timestamp = Len(completed) - MetricsMaxLen + 1

\* The ring as it was when its mutation count was v.
RingAt(v) == LastN(SubSeq(completed, 1, v), MetricsMaxLen)

\* The sum of field f over the records of d from index i on.
RECURSIVE SumFrom(_, _, _)
SumFrom(d, f, i) == IF i > Len(d) THEN 0 ELSE d[i][f] + SumFrom(d, f, i + 1)

\* The summary and the 'recent' list of a /metrics response as functions of
\* one ring d.
MetricsOf(d) ==
    [recent |-> LastN(d, RecentLen),
     total |-> Len(d),
     rtf |-> IF Len(d) = 0 THEN [sum |-> 0, n |-> 1]
             ELSE [sum |-> SumFrom(d, "rtf", 1), n |-> Len(d)],
     generation_time |->
             IF Len(d) = 0 THEN [sum |-> 0, n |-> 1]
             ELSE [sum |-> SumFrom(d, "generation_time", 1), n |-> Len(d)],
     methods |-> {m \in Methods : \E i \in 1..Len(d) : d[i].method = m}]

\* C11: appends of /synthesize and reads of GET /metrics are serialized: no
\* append is lost, and every /metrics response is computed from a single
\* state of the ring, its averages being the sums over exactly the records
\* counted in total_generations divided by that count.
C11_MetricsSerialized ==
    /\ performance_metrics = LastN(completed, MetricsMaxLen)
    /\ m_pc = "done" =>
          /\ m_loc.status = 200
          /\ m_ver.lo = m_ver.hi
          /\ m_loc.rtf = MetricsOf(RingAt(m_ver.lo)).rtf
          /\ m_loc.generation_time = MetricsOf(RingAt(m_ver.lo)).generation_time
          /\ m_loc.total = Len(RingAt(m_ver.lo))

\* C12: GET /metrics returns as 'recent' the last min(20, n) records of the
\* ring in append order, where n is the number of records in the ring, and a
\* summary with count n, the mean rtf and mean generation_time over all n
\* records (both 0 when n = 0) and the set of distinct methods among them.
\* (The ring here is any one state the ring was in during the call.)
C12_MetricsResponse ==
    m_pc = "done" =>
        \E v \in m_ver.lo..m_ver.hi :
            LET want == MetricsOf(RingAt(v))
                n == want.total
            IN  /\ m_loc.status = 200
                /\ Len(m_loc.recent) = IF n < RecentLen THEN n ELSE RecentLen
                /\ m_loc.recent = want.recent
                /\ m_loc.total = n
                /\ m_loc.rtf = want.rtf
                /\ m_loc.generation_time = want.generation_time
                /\ m_loc.methods = want.methods

\* C13: a request that names a voice the voices file does not know, or
\* whose token length is beyond the voice's style table, and whose worker
\* reported the error of create, is answered with HTTP 400, not with a
\* server error status.
C13_VoiceErrorsAreClientErrors ==
    \A r \in Threads :
        (/\ pc[r] = "done"
         /\ \/ req[r].voice \notin KnownVoices
            \/ TokenCount(req[r].text) >= StyleTableLen
         /\ proc[r].st = "exited"
         /\ proc[r].rc = 0
         /\ StructuredLine(proc[r])
         /\ proc[r].out[FirstBraced(proc[r].out, 1)] = "fail")
        => resp[r].status = 400

\* C14: for every voice and token length (the length of the unpadded token
\* sequence): within the voice's style table the style is the row at index
\* token length; beyond the table the lookup fails with IndexError and no
\* row outside the table is read.
C14_StyleByTokenLength ==
    /\ ca_loc.reads \subseteq 0..(StyleTableLen - 1)
    /\ ca_loc.style.st # "none" =>
          LET n == TokenCount(ca_in.text) IN
          IF n < StyleTableLen
          THEN /\ ca_loc.style = [st |-> "ok", voice |-> ca_in.voice, row |-> n]
               /\ ca_loc.reads = {n}
          ELSE /\ ca_loc.style.st = "IndexError"
               /\ ca_loc.err = "IndexError"
               /\ ca_loc.reads = {}
               /\ ca_loc.padded = <<>>

C14_Witness ==
    /\ ca_pc = "except"
    /\ TokenCount(ca_in.text) = StyleTableLen
    /\ ca_loc.style.st = "IndexError"
    /\ ca_loc.reads = {}

\* C15: a call whose text is blank after trimming ends with the error for
\* empty input (ValueError "Empty text provided"), and no model is executed
\* for it on any backend.
C15_BlankTextFails ==
    (ca_pc \in {"returned", "raised"} /\ IsBlank(ca_in.text)) =>
        /\ ca_pc = "raised"
        /\ ca_loc.err = "ValueError"
        /\ ca_runs = <<>>

\* C16: for every non-empty text the token sequence prepared for the model
\* is the phoneme tokens with one 0 in front and one 0 behind: first and
\* last element 0, length the token count + 2, the inner elements the
\* tokens in order; the tokens a run is fed are this sequence.
C16_BoundaryPadding ==
    /\ ca_pc \in {"run", "returned"} /\ ca_loc.style.st = "ok" =>
          LET p == ca_loc.padded
              n == TokenCount(ca_in.text)
          IN  /\ Len(p) = n + 2
              /\ p[1] = 0
              /\ p[Len(p)] = 0
              /\ \A i \in 1..n : p[i + 1] = ca_loc.tokens[i] /\ p[i + 1] # 0
    /\ \A k \in 1..Len(ca_runs) :
          (ca_runs[k].where # "standard" /\ ca_runs[k].feed.tokens # <<>>) =>
              ca_runs[k].feed.tokens = ca_loc.padded

C16_Witness ==
    /\ ca_pc = "returned"
    /\ ca_in.text = <<"h", "i">>
    /\ ca_runs # <<>>
    /\ ca_runs[1].where = "accelerator"
    /\ ca_runs[1].feed.tokens = <<0, 1, 2, 0>>

\* C17, as claimed: when the accelerated execution raises, the default
\* execution is run on the same inputs, and the call succeeds or fails
\* exactly as the default execution does.
C17_AsDefaultExecution ==
    (ca_pc \in {"returned", "raised"} /\ ca_loc.accel = "raise") =>
        /\ Len(ca_runs) >= 2
        /\ ca_runs[2] = [where |-> "default", feed |-> ca_runs[1].feed]
        /\ ca_loc.default # "raise" => ca_pc = "returned"
        /\ ca_loc.default = "raise" => ca_pc = "raised"

\* C17, amended: when the accelerated execution raises, the default
\* execution is run on the same inputs (tokens, style, speed).  When the
\* default execution returns, the call returns its result; when it raises
\* too, create_audio makes one attempt with the standard CPU pipeline and
\* the call succeeds or fails as that attempt does.  A failure of the
\* accelerator alone never fails the call.
C17_AcceleratorFailureRecovered ==
    (ca_pc \in {"returned", "raised"} /\ ca_loc.accel = "raise") =>
        /\ Len(ca_runs) >= 2
        /\ ca_runs[1].where = "accelerator"
        /\ ca_runs[1].feed = ca_loc.feed
        /\ ca_runs[2] = [where |-> "default", feed |-> ca_loc.feed]
        /\ ca_loc.default # "raise" =>
              /\ ca_pc = "returned"
              /\ Len(ca_runs) = 2
              /\ Len(ca_attempts) = 1
              /\ ca_out.data = ResultAudio(ca_loc.default).data
        /\ ca_loc.default = "raise" =>
              /\ Len(ca_runs) = 3
              /\ ca_runs[3].where = "standard"
              /\ Len(ca_attempts) = 2
              /\ ca_attempts[2].backend = "cpu"
              /\ (ca_pc = "returned") = ca_attempts[2].ok

C17_Witness ==
    /\ ca_pc = "returned"
    /\ ca_loc.accel = "raise"
    /\ ca_loc.default = "array"
    /\ Len(ca_runs) = 2
    /\ ca_runs[2].feed.tokens = <<0, 1, 2, 0>>

\* the result of the execution the accelerated path returned from
EffectiveResult == IF ca_loc.accel = "raise" THEN ca_loc.default ELSE ca_loc.accel

\* C18: when the inference call of the accelerated path yields a
\* zero-dimensional result, the path returns a one-dimensional array of
\* exactly one element, which is that value; it never returns a
\* zero-dimensional value.
C18_ScalarBecomesArray ==
    (/\ ca_pc = "returned"
     /\ Len(ca_attempts) = 1
     /\ ca_attempts[1].backend = "mlir_npu")
    => /\ ca_out.kind = "ndarray"
       /\ ca_out.ndim = 1
       /\ EffectiveResult \in {"scalar", "pyscalar"} =>
             /\ Len(ca_out.data) = 1
             /\ ca_out.data = ResultAudio(EffectiveResult).data

C18_Witness ==
    /\ ca_pc = "returned"
    /\ ca_loc.accel = "scalar"
    /\ ca_out = [kind |-> "ndarray", ndim |-> 1, data |-> <<7>>]

\* lg has a record of level ERROR.
HasError(lg) == \E i \in 1..Len(lg) : lg[i].level = "ERROR"

\* C19: every request that is answered with an error (400 for empty text,
\* 500 for a synthesis failure, 404 or 500 for audio serving) has logged an
\* error record for that failure by the time the response is returned.
C19_ErrorsLoggedBeforeResponse ==
    /\ \A r \in Threads :
          (pc[r] = "done" /\ resp[r].status \in {400, 500}) => HasError(logged[r])
    /\ a_last.status \in {404, 500} => HasError(a_last.logs)

\* the value the body gives for key k: that of the item with this key
SentFor(items, k) == items[CHOOSE i \in 1..Len(items) : items[i][1] = k][2]

\* C20: POST /settings sets exactly the recognized keys that are in the
\* body, to the values given; keys not in the body keep their values,
\* unrecognized keys of the body are ignored, and the key set of the map
\* never changes; GET /settings changes nothing.
C20_SettingsFrame ==
    /\ DOMAIN APP_SETTINGS \in {DOMAIN MagicSettings, DOMAIN EnhancedSettings}
    /\ s_last.method # "" =>
          /\ DOMAIN APP_SETTINGS = DOMAIN s_last.before
          /\ s_last.method = "GET" => APP_SETTINGS = s_last.before
          /\ \A k \in DOMAIN s_last.before :
                APP_SETTINGS[k] =
                    IF \E i \in 1..Len(s_last.body.items) :
                           s_last.body.items[i][1] = k
                    THEN SentFor(s_last.body.items, k)
                    ELSE s_last.before[k]

C20_Witness ==
    /\ s_last.method = "POST"
    /\ s_last.status = 200
    /\ s_last.body.items = <<<<"bogus", "x">>, <<"preferred_method", "cpu">>>>
    /\ s_last.before.preferred_method = "auto"
    /\ APP_SETTINGS.preferred_method = "cpu"
    /\ DOMAIN APP_SETTINGS = DOMAIN MagicSettings

\* C21: log_buffer never holds more than 1000 entries and is always the
\* latest (up to 1000) captured entries in capture order; a connect sends
\* the client exactly one log_buffer message, the first it gets, and every
\* log_buffer message carries the whole buffer of the moment it is sent.
C21_LogHistory ==
    /\ Len(log_buffer) <= LogBufferMaxLen
    /\ log_buffer = LastN(captured, LogBufferMaxLen)
    /\ \A c \in Clients :
        /\ c_pc[c] = "connect" => inbox[c] = <<>>
        /\ c_pc[c] = "on" => inbox[c] # <<>>
        /\ \A i \in 1..Len(inbox[c]) :
            /\ inbox[c][i].event = "log_buffer"
            /\ inbox[c][i].on = (IF i = 1 THEN "connect" ELSE "request_logs")
            /\ inbox[c][i].data =
                   LastN(SubSeq(captured, 1, inbox[c][i].at), LogBufferMaxLen)

C21_Witness ==
    \E c \in Clients :
        /\ c_pc[c] = "on"
        /\ Len(inbox[c]) = 1
        /\ inbox[c][1].at > LogBufferMaxLen
        /\ Len(inbox[c][1].data) = LogBufferMaxLen

\* C22: every 16-bit sample written lies in [-32767, 32767], and read back
\* and divided by 32767 it differs from the float sample clipped to [-1, 1]
\* by at most 1/32767 (both sides multiplied by 32767 * SampleSteps).
C22_PcmInRange ==
    \A i \in 1..Len(audio_int16) :
        LET k == pcm_audio[i]
            clipped == IF k < -SampleSteps THEN -SampleSteps
                       ELSE IF k > SampleSteps THEN SampleSteps ELSE k
            diff == audio_int16[i] * SampleSteps - 32767 * clipped
        IN  /\ audio_int16[i] \in (-32767)..32767
            /\ diff \in (-SampleSteps)..SampleSteps

C22_Witness ==
    /\ audio_int16 = <<-32767>>
    /\ pcm_audio[1] < -SampleSteps

\* C23: a request with non-blank text starts exactly one worker, a new
\* process that no other request has used, in the step that receives it;
\* no other step starts a worker; a step changes the worker of one request
\* at most; and when run_synthesis_subprocess has returned or raised, the
\* worker it started has exited or has been killed.
C23_OneWorkerPerRequest ==
    /\ [][\A r \in Threads :
            /\ (pc[r] = "idle" /\ pc'[r] # "idle" /\ ~IsBlank(req'[r].text)) =>
                  /\ proc[r] = NoProc
                  /\ proc'[r] = [NoProc EXCEPT !.st = "started",
                                               !.script = proc'[r].script,
                                               !.backend = proc'[r].backend]
            /\ (proc[r].st # "started" /\ proc'[r].st = "started") =>
                  pc[r] = "idle"
            /\ (proc'[r] # proc[r]) =>
                  \A t \in Threads \ {r} : proc'[t] = proc[t]]_vars
    /\ [](\A r \in Threads :
            /\ (pc[r] # "idle" /\ ~IsBlank(req[r].text)) => proc[r].st # "none"
            /\ (pc[r] \in {"assemble", "done"} /\ proc[r].st # "none") =>
                  /\ local[r].result # "none" \/ resp[r].status = 500
                  /\ proc[r].st \in {"exited", "killed"}
            /\ local[r].result # "none" => proc[r].st \in {"exited", "killed"})

C23_Witness ==
    \E r \in Threads :
        /\ local[r].result = "raised"
        /\ local[r].kind = "TimeoutExpired"
        /\ proc[r].st = "killed"
        /\ \E t \in Threads \ {r} : proc[t].st = "started"

\* The lines of the worker's stdout that are a result line of the script.
ResultLines(out) == {i \in 1..Len(out) : out[i] \in {"ok", "fail"}}

\* C24: when the worker has exited with code 0 and its stdout holds exactly
\* one result line, the other lines being diagnostics of any shape (a line
\* in braces included), run_synthesis_subprocess returns what that line
\* encodes: success with its sample rate, or failure with its error.
C24_ResultLineDecides ==
    \A r \in Threads :
        (/\ pc[r] = "done"
         /\ proc[r].st = "exited"
         /\ proc[r].rc = 0
         /\ Cardinality(ResultLines(proc[r].out)) = 1)
        => LET line == proc[r].out[CHOOSE i \in ResultLines(proc[r].out) : TRUE]
           IN  IF line = "ok"
               THEN /\ local[r].result = "returned_success"
                    /\ local[r].sample_rate = KokoroSampleRate
               ELSE /\ local[r].result = "returned_failure"
                    /\ local[r].kind = "worker error"

\* C25: when run_synthesis_subprocess has returned success, the parent has
\* loaded the audio artifact of its worker and the artifact is gone; and
\* while one request only has been made, the artifact path does not exist
\* once the call has returned or raised, whatever the outcome.
C25_ArtifactConsumed ==
    \A r \in Threads :
        /\ local[r].result = "returned_success" =>
              /\ local[r].audio.by = req[r].id
              /\ artifact = NoFile
        /\ (budget = MaxInputRequests - 1 /\ local[r].result # "none") =>
              artifact = NoFile

\* The place of a position of create_audio in the order RECEIVED,
\* BACKEND_SELECTED, TOKENIZED, STYLE_RESOLVED, INFERRING, ended.
StageOf(at) ==
    CASE at = "idle"     -> 0
      [] at = "try"      -> 1
      [] at = "voice"    -> 2
      [] at = "tokenize" -> 2
      [] at = "style"    -> 3
      [] at = "run"      -> 4
      [] OTHER           -> 5

\* C26: a create_audio call goes through its stages in the fixed order and
\* never back within the accelerated attempt; the voice's style is not
\* looked up before the text has been tokenized; and blank text is
\* rejected before any voice lookup, so a blank text never fails on its
\* voice.
C26_FixedOrder ==
    /\ [][ca_pc' # "idle" => StageOf(ca_pc') >= StageOf(ca_pc)]_vars
    /\ [](ca_loc.voice_style # "" => ca_loc.tokens # <<>>)
    /\ [](IsBlank(ca_in.text) =>
            (ca_loc.voice_style = "" /\ ca_loc.err # "UnknownVoice"))

\* The entries on their way from WebLogHandler.emit to the clients: emitted
\* as new_log, taken by log_streamer, on the queue, about to be put on it.
InChannel ==
    streamed
    \o (IF st_entry = NoEntry THEN <<>> ELSE <<st_entry>>)
    \o log_queue
    \o (IF h_lock = NoLock THEN <<>> ELSE <<h_lock.entry>>)

\* C27: every entry WebLogHandler captures goes on the stream queue as well
\* as into log_buffer, and with log_streamer scheduled fairly every
\* captured entry is in the end emitted as new_log exactly once, in capture
\* order, the entries log_buffer has dropped included.
C27_EveryEntryStreamed ==
    /\ [](InChannel = captured)
    /\ <>[](streamed = captured)

\* An entry log_buffer has dropped has been emitted as new_log.
C27_Witness ==
    /\ Len(captured) > LogBufferMaxLen
    /\ streamed # <<>>
    /\ streamed[Len(streamed)].n < log_buffer[1].n

\* C28: a step of /synthesize changes the metrics ring only when it ends a
\* request with success: it then appends one record, with the voice, the
\* text length and the sample rate of that request, and emits one
\* performance_update with the same record; a request answered with 400
\* or 500 has emitted nothing and its steps left the ring as it was; and
\* no step of /synthesize changes APP_SETTINGS.
C28_MetricsFrame ==
    /\ [][/\ APP_SETTINGS' = APP_SETTINGS
          /\ \A r \in Threads :
                (pc[r] # "done" /\ pc'[r] = "done") =>
                    IF resp'[r].status = 200
                    THEN LET entry == completed'[Len(completed')] IN
                         /\ Len(completed') = Len(completed) + 1
                         /\ performance_metrics' # <<>>
                         /\ performance_metrics'[Len(performance_metrics')]
                                = entry
                         /\ SubSeq(performance_metrics', 1,
                                   Len(performance_metrics') - 1)
                                = LastN(performance_metrics, MetricsMaxLen - 1)
                         /\ entry.voice = req[r].voice
                         /\ entry.text_length = Len(req[r].text)
                         /\ entry.sample_rate = local[r].sample_rate
                         /\ emitted'[r] = <<[event |-> "performance_update",
                                             data |-> entry]>>
                    ELSE /\ resp'[r].status \in {400, 500}
                         /\ performance_metrics' = performance_metrics
                         /\ completed' = completed
                         /\ emitted'[r] = <<>>
          /\ (performance_metrics' # performance_metrics) =>
                \E r \in Threads :
                    pc[r] # "done" /\ pc'[r] = "done" /\ resp'[r].status = 200
         ]_vars
    /\ [](\A r \in Threads :
            pc[r] \notin {"idle", "done"} => emitted[r] = <<>>)

C28_Witness ==
    \E r, t \in Threads :
        /\ pc[r] = "done" /\ resp[r].status = 200
        /\ Len(emitted[r]) = 1
        /\ pc[t] = "done" /\ resp[t].status = 500
        /\ emitted[t] = <<>>
        /\ Len(performance_metrics) = 1

\* What /synthesize answers for a text, the worker's run and the audio
\* loaded, whatever the method and the configuration map.
OutcomeOf(text, p, audio, sample_rate) ==
    IF IsBlank(text)
    THEN [status |-> 400, kind |-> "No text provided for synthesis"]
    ELSE IF p.st = "killed"
    THEN [status |-> 500, kind |-> "TimeoutExpired"]
    ELSE IF ParseResult(p).how # "load"
    THEN [status |-> 500, kind |-> ParseResult(p).kind]
    ELSE IF audio = NoFile
    THEN [status |-> 500, kind |-> "FileNotFoundError"]
    ELSE IF audio.len * 1000 < sample_rate
    THEN [status |-> 500, kind |-> "ZeroDivisionError"]
    ELSE [status |-> 200, kind |-> "Real Kokoro TTS"]

C30_ScriptRemoved ==
    /\ tmp_scripts =
          {req[r].id : r \in {t \in Threads : pc[t] \in {"wait", "load", "unlink"}}}
    /\ \A r \in Threads :
          (local[r].result # "none" \/ pc[r] \in {"assemble", "done"}) =>
              req[r].id \notin tmp_scripts

C30_Witness ==
    \E r \in Threads :
        /\ local[r].result = "raised"
        /\ local[r].kind = "FileNotFoundError"
        /\ req[r].id \notin tmp_scripts
        /\ \E t \in Threads : resp[t].status = 200

====
